---- MODULE Spec2Model ----
(***************************************************************************)
(* fastify-new: the interactive setup flow, the plugin scaffold wizard and *)
(* the project generator of cli.ts, as a state machine whose steps are the *)
(* operator's answers.  Between two answers the program runs to its next   *)
(* rl.question call, so every action is "the operator types one line and   *)
(* the program runs until it waits for the next line or exits".            *)
(*                                                                         *)
(* JavaScript values are tagged tuples: <<"undefined">>, <<"boolean", b>>, *)
(* <<"string", s>> and <<"number", n, d>> for the number n + d/10.         *)
(* Text is a TLA+ string; Chars(s) gives its characters, so that trimming, *)
(* Number(), String() and the name pattern are computed, not assumed.      *)
(***************************************************************************)
EXTENDS Integers, Sequences, FiniteSets

VARIABLES
    pc,               \* where main() is suspended: the pending question, or "exited"
    exitCode,         \* -1 while the process runs, then its exit status
    errLines,         \* number of "Error: ..." lines written to stderr by fail()
    errMessage,       \* the message of the last such line
    out,              \* the messages the last step wrote to stdout (menus and questions excluded)
    args,             \* process.argv.slice(2)
    targetDir,        \* args[0], once main() has read it
    fsDirs,           \* directories that exist, relative to the target (<<>> is the target itself)
    fsFiles,          \* files that exist under the target
    written,          \* history: the writeFileSync calls of this run, <<path, content>>, in order
    resolved,         \* the ResolvedOptions map of runSetupFlow (a key is in DOMAIN once written)
    setupReturned,    \* runSetupFlow has returned its map to main
    catIdx,           \* index of the category being asked in runSetupFlow's loop
    optIdx,           \* index of the option being asked in promptCategoryOptions' loop
    setupAsked,       \* history: the questions runSetupFlow has asked, in order
    resolverRuns,     \* history: number of calls of applyTrustProxyPrecedence
    lastChoice,       \* history: <<options, value>> of the askChoice that returned in the last step
    lastInput,        \* history: <<option key, raw line>> of the last askInput of askOption
    pluginScaffolds,  \* the wizard's result list
    pluginName,       \* the wizard's locals for the scaffold under construction
    routeNames,
    hookNames,
    hasDecorator,
    childPluginName,
    selected,         \* the menu selection whose handling is suspended on a name question
    lastName,         \* history: <<label, raw line, response, accepted>> of the
                      \* askPluginName round of the last step
    appTrustProxy     \* the trustProxyValue buildAppTs read, once generateProject ran

setupVars == <<resolved, setupReturned, catIdx, optIdx, setupAsked, resolverRuns, lastInput>>
scaffoldVars == <<pluginScaffolds, pluginName, routeNames, hookNames, hasDecorator,
                  childPluginName, selected>>
wizardVars == <<scaffoldVars, lastName>>
fsVars == <<fsDirs, fsFiles, written, appTrustProxy>>
argVars == <<args, targetDir>>
errVars == <<errLines, errMessage>>
vars == <<pc, exitCode, errVars, out, argVars, lastChoice, setupVars, wizardVars, fsVars>>

-----------------------------------------------------------------------------
(* Bounds of the model. *)

\* At most this many categories are answered "Configure" in one run.
MaxConfigured == 1

\* At most this many plugins are scaffolded in one run.
MaxScaffolds == 2

\* At most this many routes, hooks, decorators and child plugins are added in
\* one run, over all its scaffolds.
MaxAdditions == 4

-----------------------------------------------------------------------------
(* JavaScript values. *)

Undef == <<"undefined">>
Bool(b) == <<"boolean", b>>
Str(s) == <<"string", s>>
Num(n, d) == <<"number", n, d>>
NaN == <<"number", "NaN">>
TypeOf(v) == v[1]

-----------------------------------------------------------------------------
(* Text.  The lines an operator can type and the strings the program       *)
(* derives from them.  No text of the universe has more than one           *)
(* fractional digit, a sign, an exponent or a radix prefix.                *)

DEFAULT_IGNORE_WATCH == "node_modules build dist .git bower_components logs .swp"

Chars(s) ==
    CASE s = ""      -> <<>>
      [] s = " "     -> <<" ">>
      [] s = "x"     -> <<"x">>
      [] s = "ab"    -> <<"a", "b">>
      [] s = " ab "  -> <<" ", "a", "b", " ">>
      [] s = "80"    -> <<"8", "0">>
      [] s = "0"     -> <<"0">>
      [] s = "1"     -> <<"1">>
      [] s = "2"     -> <<"2">>
      [] s = "3"     -> <<"3">>
      [] s = "4"     -> <<"4">>
      [] s = "5"     -> <<"5">>
      [] s = "6"     -> <<"6">>
      [] s = "7"     -> <<"7">>
      [] s = "1.5"   -> <<"1", ".", "5">>
      [] s = "500"   -> <<"5", "0", "0">>
      [] s = "3000"  -> <<"3", "0", "0", "0">>
      [] s = "9320"  -> <<"9", "3", "2", "0">>
      [] s = "10000" -> <<"1", "0", "0", "0", "0">>
      [] s = "my-plugin1" -> <<"m", "y", "-", "p", "l", "u", "g", "i", "n", "1">>
      [] s = "My-Plugin"  -> <<"M", "y", "-", "P", "l", "u", "g", "i", "n">>
      [] s = "1plugin"    -> <<"1", "p", "l", "u", "g", "i", "n">>
      [] s = "billing"    -> <<"b", "i", "l", "l", "i", "n", "g">>
      [] s = " billing "  -> <<" ", "b", "i", "l", "l", "i", "n", "g", " ">>
      [] s = "users"      -> <<"u", "s", "e", "r", "s">>
      [] s = "sensible"   -> <<"s", "e", "n", "s", "i", "b", "l", "e">>
      [] s = "invoices"   -> <<"i", "n", "v", "o", "i", "c", "e", "s">>
      [] s = "audit"      -> <<"a", "u", "d", "i", "t">>
      [] s = "a b"        -> <<"a", " ", "b">>
      [] s = "."          -> <<".">>
      [] s = "demo"       -> <<"d", "e", "m", "o">>
      [] s = "generate"   -> <<"g", "e", "n", "e", "r", "a", "t", "e">>
      [] s = "--help"     -> <<"-", "-", "h", "e", "l", "p">>
      [] s = "-h"         -> <<"-", "h">>
      [] s = "--port"     -> <<"-", "-", "p", "o", "r", "t">>

Universe ==
    {"", " ", "x", "ab", " ab ", "80", "0", "1", "2", "3", "4", "5", "6", "7", "1.5",
     "500", "3000", "9320", "10000", "my-plugin1", "My-Plugin", "1plugin", "billing", "sensible",
     " billing ", "users", "invoices", "audit", "a b", ".", "demo", "generate", "--help",
     "-h", "--port"}

FromChars(cs) == CHOOSE s \in Universe : Chars(s) = cs

IsSpace(c) == c = " "
IsDigit(c) == c \in {"0", "1", "2", "3", "4", "5", "6", "7", "8", "9"}

IsLower(c) ==
    c \in {"a", "b", "c", "d", "e", "f", "g", "h", "i", "j", "k", "l", "m", "n", "o", "p",
           "q", "r", "s", "t", "u", "v", "w", "x", "y", "z"}

DigitVal(c) ==
    CASE c = "0" -> 0 [] c = "1" -> 1 [] c = "2" -> 2 [] c = "3" -> 3 [] c = "4" -> 4
      [] c = "5" -> 5 [] c = "6" -> 6 [] c = "7" -> 7 [] c = "8" -> 8 [] c = "9" -> 9

DigitChar(n) == <<"0", "1", "2", "3", "4", "5", "6", "7", "8", "9">>[n + 1]

RECURSIVE TrimStart(_)
TrimStart(cs) ==
    IF cs # <<>> /\ IsSpace(Head(cs)) THEN TrimStart(Tail(cs)) ELSE cs

RECURSIVE TrimEnd(_)
TrimEnd(cs) ==
    IF cs # <<>> /\ IsSpace(cs[Len(cs)]) THEN TrimEnd(SubSeq(cs, 1, Len(cs) - 1)) ELSE cs

\* String.prototype.trim of every text of the universe, computed once
TrimOf == [s \in Universe |-> FromChars(TrimEnd(TrimStart(Chars(s))))]

\* String.prototype.trim
Trim(s) == TrimOf[s]

\* String.prototype.length
StrLen(s) == Len(Chars(s))

RECURSIVE IntOf(_)
IntOf(cs) ==
    IF cs = <<>> THEN 0 ELSE IntOf(SubSeq(cs, 1, Len(cs) - 1)) * 10 + DigitVal(cs[Len(cs)])

RECURSIVE DigitsOf(_)
DigitsOf(n) ==
    IF n < 10 THEN <<DigitChar(n)>> ELSE Append(DigitsOf(n \div 10), DigitChar(n % 10))

\* Number(s): surrounding white space is ignored, the empty string is 0, a
\* decimal literal is its value, anything else is NaN.
ToNumber(s) ==
    LET cs == TrimEnd(TrimStart(Chars(s)))
        dots == {p \in 1..Len(cs) : cs[p] = "."}
    IN  IF cs = <<>> THEN Num(0, 0)
        ELSE IF \A i \in 1..Len(cs) : IsDigit(cs[i]) THEN Num(IntOf(cs), 0)
        ELSE IF /\ Cardinality(dots) = 1
                /\ Len(cs) > 1
                /\ \A i \in 1..Len(cs) : IsDigit(cs[i]) \/ i \in dots
                /\ \A p \in dots : Len(cs) - p <= 1
        THEN LET p == CHOOSE q \in dots : TRUE
             IN  Num(IntOf(SubSeq(cs, 1, p - 1)),
                     IF p = Len(cs) THEN 0 ELSE DigitVal(cs[p + 1]))
        ELSE NaN

\* String(v) of a number or a string, as the template literal and String() give it.
StringOf(v) ==
    IF TypeOf(v) = "string" THEN v[2]
    ELSE IF v[3] = 0 THEN FromChars(DigitsOf(v[2]))
    ELSE FromChars(DigitsOf(v[2]) \o <<".", DigitChar(v[3])>>)

\* String.prototype.startsWith on the two menu labels the setup flow tests.
StartsWith(s, prefix) ==
    \/ prefix = "Default setup" /\ s = "Default setup (quick start)"
    \/ prefix = "Skip" /\ s = "Skip this category (use defaults)"

\* arg.startsWith('-')
StartsWithDash(s) == Chars(s) # <<>> /\ Chars(s)[1] = "-"

-----------------------------------------------------------------------------
(* The option schema. *)

Option(key, type, default) == [key |-> key, type |-> type, choices |-> <<>>, default |-> default]

logLevelChoices == <<"fatal", "error", "warn", "info", "debug", "trace">>

categories == <<
    [key |-> "network", name |-> "Network", options |-> <<
        Option("port", "number", Num(3000, 0)),
        Option("host", "string", Undef),
        Option("socket", "string", Undef),
        Option("prefix", "string", Undef) >>],
    [key |-> "logging", name |-> "Logging", options |-> <<
        [key |-> "logLevel", type |-> "choice", choices |-> logLevelChoices,
         default |-> Str("fatal")],
        Option("prettyLogs", "boolean", Bool(FALSE)) >>],
    [key |-> "debug", name |-> "Debug", options |-> <<
        Option("debug", "boolean", Bool(FALSE)),
        Option("debugPort", "number", Num(9320, 0)),
        Option("debugHost", "string", Undef) >>],
    [key |-> "watch", name |-> "Watch Mode", options |-> <<
        Option("watch", "boolean", Bool(FALSE)),
        Option("ignoreWatch", "string", Str(DEFAULT_IGNORE_WATCH)),
        Option("verboseWatch", "boolean", Bool(FALSE)) >>],
    [key |-> "safety", name |-> "Safety and Limits", options |-> <<
        Option("pluginTimeout", "number", Num(10000, 0)),
        Option("bodyLimit", "number", Undef),
        Option("closeGraceDelay", "number", Num(500, 0)) >>],
    [key |-> "trustProxy", name |-> "Trust Proxy", options |-> <<
        Option("trustProxyEnabled", "tri-boolean", Undef),
        Option("trustProxyIps", "string", Undef),
        Option("trustProxyHop", "number", Undef) >>] >>

-----------------------------------------------------------------------------
(* The ResolvedOptions map: a JavaScript object, that is the sequence of   *)
(* its <<key, value>> properties in insertion order.                       *)

EmptyMap == <<>>

\* Object.keys(r), as a set and in order
Keys(r) == {r[i][1] : i \in 1..Len(r)}
KeyOrder(r) == [i \in 1..Len(r) |-> r[i][1]]

\* resolved[key] = value: an existing property keeps its place
Put(r, key, value) ==
    IF key \in Keys(r)
    THEN [i \in 1..Len(r) |-> IF r[i][1] = key THEN <<key, value>> ELSE r[i]]
    ELSE Append(r, <<key, value>>)

\* resolved.key (a key never written reads as undefined)
Get(r, key) ==
    IF key \in Keys(r) THEN r[CHOOSE i \in 1..Len(r) : r[i][1] = key][2] ELSE Undef

\* mutant: the boolean is tested for truth, so false falls through
applyTrustProxyPrecedence_truthy(r) ==
    IF Get(r, "trustProxyEnabled") = Bool(TRUE)
    THEN Put(r, "trustProxyEffective", Get(r, "trustProxyEnabled"))
    ELSE IF /\ TypeOf(Get(r, "trustProxyIps")) = "string"
            /\ StrLen(Get(r, "trustProxyIps")[2]) > 0
    THEN Put(r, "trustProxyEffective", Get(r, "trustProxyIps"))
    ELSE IF TypeOf(Get(r, "trustProxyHop")) = "number"
    THEN Put(r, "trustProxyEffective", Get(r, "trustProxyHop"))
    ELSE Put(r, "trustProxyEffective", Undef)

\* mutant: the hop count is tested before the IP string
applyTrustProxyPrecedence_hopFirst(r) ==
    IF TypeOf(Get(r, "trustProxyEnabled")) = "boolean"
    THEN Put(r, "trustProxyEffective", Get(r, "trustProxyEnabled"))
    ELSE IF TypeOf(Get(r, "trustProxyHop")) = "number"
    THEN Put(r, "trustProxyEffective", Get(r, "trustProxyHop"))
    ELSE IF /\ TypeOf(Get(r, "trustProxyIps")) = "string"
            /\ StrLen(Get(r, "trustProxyIps")[2]) > 0
    THEN Put(r, "trustProxyEffective", Get(r, "trustProxyIps"))
    ELSE Put(r, "trustProxyEffective", Undef)

\* mutant: the raw value that was used is consumed
applyTrustProxyPrecedence_consumesRaw(r) ==
    IF TypeOf(Get(r, "trustProxyEnabled")) = "boolean"
    THEN Put(Put(r, "trustProxyEffective", Get(r, "trustProxyEnabled")),
             "trustProxyEnabled", Undef)
    ELSE IF /\ TypeOf(Get(r, "trustProxyIps")) = "string"
            /\ StrLen(Get(r, "trustProxyIps")[2]) > 0
    THEN Put(r, "trustProxyEffective", Get(r, "trustProxyIps"))
    ELSE IF TypeOf(Get(r, "trustProxyHop")) = "number"
    THEN Put(r, "trustProxyEffective", Get(r, "trustProxyHop"))
    ELSE Put(r, "trustProxyEffective", Undef)

\* applyTrustProxyPrecedence(resolved): the first match decides trustProxyEffective
applyTrustProxyPrecedence(r) ==
    IF TypeOf(Get(r, "trustProxyEnabled")) = "boolean"
    THEN Put(r, "trustProxyEffective", Get(r, "trustProxyEnabled"))
    ELSE IF /\ TypeOf(Get(r, "trustProxyIps")) = "string"
            /\ StrLen(Get(r, "trustProxyIps")[2]) > 0
    THEN Put(r, "trustProxyEffective", Get(r, "trustProxyIps"))
    ELSE IF TypeOf(Get(r, "trustProxyHop")) = "number"
    THEN Put(r, "trustProxyEffective", Get(r, "trustProxyHop"))
    ELSE Put(r, "trustProxyEffective", Undef)

RECURSIVE applyDefaultsFrom(_, _, _)
applyDefaultsFrom(options, i, r) ==
    IF i > Len(options) THEN r
    ELSE applyDefaultsFrom(options, i + 1, Put(r, options[i].key, options[i].default))

\* mutant: every option of the category is set to undefined
applyCategoryDefaults_undefined(category, r) ==
    applyDefaultsFrom([i \in 1..Len(category.options) |->
                        [category.options[i] EXCEPT !.default = Undef]], 1, r)

\* mutant: the defaults of a skipped category replace the map
applyCategoryDefaults_freshMap(category, r) == applyDefaultsFrom(category.options, 1, EmptyMap)

applyCategoryDefaults(category, r) == applyDefaultsFrom(category.options, 1, r)

RECURSIVE allDefaultsFrom(_, _)
allDefaultsFrom(c, r) ==
    IF c > Len(categories) THEN r
    ELSE allDefaultsFrom(c + 1, applyCategoryDefaults(categories[c], r))

\* mutant: the resolver runs before the defaults are copied
buildAllDefaults_resolverFirst == allDefaultsFrom(1, applyTrustProxyPrecedence(EmptyMap))

buildAllDefaults == applyTrustProxyPrecedence(allDefaultsFrom(1, EmptyMap))

-----------------------------------------------------------------------------
(* The question transport. *)

modeChoices == <<"Default setup (quick start)", "Guided setup (choose by category)">>
categoryChoices == <<"Skip this category (use defaults)", "Configure this category (prompt me)">>
booleanChoices == <<"No", "Yes">>
triBooleanChoices == <<"Unset (default)", "False", "True">>
pluginMenuChoices == <<"Route", "Hook", "Decorator", "Child plugin", "Done">>
anotherChoices == <<"Yes", "No">>
confirmChoices == <<"Generate", "Cancel">>

\* askChoice's test of one answer: !Number.isNaN(index) && index >= 1 && index <= options.length
choiceAccepts(answer, options) ==
    LET index == ToNumber(answer)
    IN  /\ index # NaN
        /\ index[2] >= 1
        /\ \/ index[2] < Len(options)
           \/ index[2] = Len(options) /\ index[3] = 0

\* askChoice's return value for an accepted answer: options[index - 1], which is
\* undefined when index - 1 is not an array index
choiceValue(answer, options) ==
    LET index == ToNumber(answer)
    IN  IF index[3] = 0 THEN Str(options[index[2]]) ELSE Undef

\* mutant: an empty line is returned as the empty string, default or not
askInput_emptyIgnoresDefault(raw, defaultValue) ==
    IF Trim(raw) = "" THEN "" ELSE Trim(raw)

\* mutant: the line is returned as typed unless it is blank
askInput_untrimmed(raw, defaultValue) ==
    IF Trim(raw) = ""
    THEN IF defaultValue = Undef THEN "" ELSE StringOf(defaultValue)
    ELSE raw

\* askInput's return value for one raw line
askInput(raw, defaultValue) ==
    IF Trim(raw) = ""
    THEN IF defaultValue = Undef THEN "" ELSE StringOf(defaultValue)
    ELSE Trim(raw)

\* mutant: the pattern without its first-character class, /^[a-z0-9-]*$/
testPluginName_anyFirst(name) ==
    LET cs == Chars(name)
    IN  \A i \in 1..Len(cs) : IsLower(cs[i]) \/ IsDigit(cs[i]) \/ cs[i] = "-"

\* askPluginName's test of askInput's response: /^[a-z][a-z0-9-]*$/.test(name)
testPluginName(name) ==
    LET cs == Chars(name)
    IN  /\ Len(cs) >= 1
        /\ IsLower(cs[1])
        /\ \A i \in 2..Len(cs) : IsLower(cs[i]) \/ IsDigit(cs[i]) \/ cs[i] = "-"

\* mutant: a response that is not a number gives undefined
numberOptionValue_nanUndefined(response, option) ==
    IF response = "" THEN Undef
    ELSE IF ToNumber(response) = NaN THEN Undef
    ELSE ToNumber(response)

\* askOption's value for a number option, from askInput's response
numberOptionValue(response, option) ==
    IF response = "" THEN Undef
    ELSE IF ToNumber(response) = NaN THEN option.default
    ELSE ToNumber(response)

\* askOption's value for a string option, from askInput's response
stringOptionValue(response) == IF response = "" THEN Undef ELSE Str(response)

\* askOption's value for a boolean, tri-boolean or choice option, from askChoice's value
choiceOptionValue(answer, option) ==
    IF option.type = "boolean" THEN Bool(answer = Str("Yes"))
    ELSE IF option.type = "tri-boolean"
    THEN IF answer = Str("True") THEN Bool(TRUE)
         ELSE IF answer = Str("False") THEN Bool(FALSE)
         ELSE Undef
    ELSE answer

optionChoices(option) ==
    IF option.type = "boolean" THEN booleanChoices
    ELSE IF option.type = "tri-boolean" THEN triBooleanChoices
    ELSE option.choices

asksChoice(option) == option.type \in {"boolean", "tri-boolean", "choice"}

-----------------------------------------------------------------------------
(* The plugin files and the manifest.  A relative path is <<directory      *)
(* segments, file stem, extension>>.                                       *)

File(dir, stem, ext) == <<dir, stem, ext>>

baseDirs ==
    {<<"plugins">>, <<"routes">>, <<"routes", "root">>, <<"test">>, <<"test", "plugins">>,
     <<"test", "routes">>}

baseGeneratedFilePaths == <<
    File(<<>>, "package", ".json"),
    File(<<>>, "tsconfig", ".json"),
    File(<<>>, "app", ".ts"),
    File(<<"plugins">>, "sensible", ".ts"),
    File(<<"plugins">>, "support", ".ts"),
    File(<<"routes">>, "root", ".ts"),
    File(<<"routes", "root">>, "index", ".ts"),
    File(<<"test">>, "helper", ".ts"),
    File(<<"test", "plugins">>, "support.test", ".ts"),
    File(<<"test", "routes">>, "root.test", ".ts"),
    File(<<>>, "", ".gitignore"),
    File(<<>>, "", ".env"),
    File(<<>>, "README", ".md") >>

\* x || 'child' and if (x): undefined and the empty string are falsy
Truthy(v) == v # Undef /\ v # Str("") /\ v # Bool(FALSE)

\* a GeneratedFile
GeneratedFile(relativePath, kind, lines) ==
    [relativePath |-> relativePath, content |-> [kind |-> kind, lines |-> lines]]

\* mutant: the index ends with the bare return line whatever the scaffold holds
pluginIndexLines_alwaysReturn(pluginScaffold) ==
    <<<<"import fastify">>, <<"">>, <<"export default async function">>,
      <<"  return">>, <<"}">>, <<"">>>>

\* buildPluginFiles' indexLines: one tuple per line of the index module
pluginIndexLines(pluginScaffold) ==
    LET routes == pluginScaffold.routeNames
        hooks == pluginScaffold.hookNames
        childPluginName_ == IF Truthy(pluginScaffold.childPluginName)
                            THEN pluginScaffold.childPluginName[2] ELSE "child"
    IN  <<<<"import fastify">>, <<"">>, <<"export default async function">>>>
        \o (IF pluginScaffold.hasDecorator THEN <<<<"import", "./decorator">>>> ELSE <<>>)
        \o [i \in 1..Len(hooks) |-> <<"import", "./hooks/", hooks[i]>>]
        \o [i \in 1..Len(routes) |-> <<"register", "./routes/", routes[i]>>]
        \o (IF Truthy(pluginScaffold.childPluginName)
            THEN <<<<"register", "./plugins/", childPluginName_>>>> ELSE <<>>)
        \o (IF /\ Len(routes) = 0
               /\ Len(hooks) = 0
               /\ ~pluginScaffold.hasDecorator
               /\ ~Truthy(pluginScaffold.childPluginName)
            THEN <<<<"  return">>>> ELSE <<>>)
        \o <<<<"}">>, <<"">>>>

\* mutant: the hook files are left out of the result
buildPluginFiles_noHooks(pluginScaffold) ==
    LET pluginRoot == <<"plugins", pluginScaffold.pluginName>>
    IN  <<GeneratedFile(File(pluginRoot, "index", ".ts"), "index",
                        pluginIndexLines(pluginScaffold))>>
        \o [i \in 1..Len(pluginScaffold.routeNames) |->
                GeneratedFile(
                    File(pluginRoot \o <<"routes", pluginScaffold.routeNames[i]>>, "index", ".ts"),
                    "route",
                    <<<<"handler", pluginScaffold.pluginName, pluginScaffold.routeNames[i]>>>>)]
        \o (IF pluginScaffold.hasDecorator
            THEN <<GeneratedFile(File(pluginRoot, "decorator", ".ts"), "decorator",
                                 <<<<"decorate", pluginScaffold.pluginName, "Service">>>>)>>
            ELSE <<>>)

\* mutant: every plugin is rooted at plugins/, whatever its name
buildPluginFiles_sharedRoot(pluginScaffold) ==
    LET pluginRoot == <<"plugins">>
        childPluginName_ == IF Truthy(pluginScaffold.childPluginName)
                            THEN pluginScaffold.childPluginName[2] ELSE "child"
    IN  <<GeneratedFile(File(pluginRoot, "index", ".ts"), "index",
                        pluginIndexLines(pluginScaffold))>>
        \o [i \in 1..Len(pluginScaffold.routeNames) |->
                GeneratedFile(
                    File(pluginRoot \o <<"routes", pluginScaffold.routeNames[i]>>, "index", ".ts"),
                    "route",
                    <<<<"handler", pluginScaffold.pluginName, pluginScaffold.routeNames[i]>>>>)]
        \o [i \in 1..Len(pluginScaffold.hookNames) |->
                GeneratedFile(
                    File(pluginRoot \o <<"hooks">>, pluginScaffold.hookNames[i], ".ts"),
                    "hook", <<<<"addHook", "onRequest">>>>)]
        \o (IF pluginScaffold.hasDecorator
            THEN <<GeneratedFile(File(pluginRoot, "decorator", ".ts"), "decorator",
                                 <<<<"decorate", pluginScaffold.pluginName, "Service">>>>)>>
            ELSE <<>>)
        \o (IF Truthy(pluginScaffold.childPluginName)
            THEN <<GeneratedFile(File(pluginRoot \o <<"plugins">>, childPluginName_, ".ts"),
                                 "child", <<<<"decorate", childPluginName_, "Ready">>>>)>>
            ELSE <<>>)

buildPluginFiles(pluginScaffold) ==
    LET pluginRoot == <<"plugins", pluginScaffold.pluginName>>
        childPluginName_ == IF Truthy(pluginScaffold.childPluginName)
                            THEN pluginScaffold.childPluginName[2] ELSE "child"
    IN  <<GeneratedFile(File(pluginRoot, "index", ".ts"), "index",
                        pluginIndexLines(pluginScaffold))>>
        \o [i \in 1..Len(pluginScaffold.routeNames) |->
                GeneratedFile(
                    File(pluginRoot \o <<"routes", pluginScaffold.routeNames[i]>>, "index", ".ts"),
                    "route",
                    <<<<"handler", pluginScaffold.pluginName, pluginScaffold.routeNames[i]>>>>)]
        \o [i \in 1..Len(pluginScaffold.hookNames) |->
                GeneratedFile(
                    File(pluginRoot \o <<"hooks">>, pluginScaffold.hookNames[i], ".ts"),
                    "hook", <<<<"addHook", "onRequest">>>>)]
        \o (IF pluginScaffold.hasDecorator
            THEN <<GeneratedFile(File(pluginRoot, "decorator", ".ts"), "decorator",
                                 <<<<"decorate", pluginScaffold.pluginName, "Service">>>>)>>
            ELSE <<>>)
        \o (IF Truthy(pluginScaffold.childPluginName)
            THEN <<GeneratedFile(File(pluginRoot \o <<"plugins">>, childPluginName_, ".ts"),
                                 "child", <<<<"decorate", childPluginName_, "Ready">>>>)>>
            ELSE <<>>)

RECURSIVE customPluginFilesFrom(_, _)
customPluginFilesFrom(scaffolds, i) ==
    IF i > Len(scaffolds) THEN <<>>
    ELSE buildPluginFiles(scaffolds[i]) \o customPluginFilesFrom(scaffolds, i + 1)

buildCustomPluginFiles(scaffolds) == customPluginFilesFrom(scaffolds, 1)

\* mutant: the README is not written
baseGeneratedFiles_noReadme == <<
    GeneratedFile(File(<<>>, "package", ".json"), "base", <<>>),
    GeneratedFile(File(<<>>, "tsconfig", ".json"), "base", <<>>),
    GeneratedFile(File(<<>>, "app", ".ts"), "base", <<>>),
    GeneratedFile(File(<<"plugins">>, "sensible", ".ts"), "base", <<>>),
    GeneratedFile(File(<<"plugins">>, "support", ".ts"), "base", <<>>),
    GeneratedFile(File(<<"routes">>, "root", ".ts"), "base", <<>>),
    GeneratedFile(File(<<"routes", "root">>, "index", ".ts"), "base", <<>>),
    GeneratedFile(File(<<"test">>, "helper", ".ts"), "base", <<>>),
    GeneratedFile(File(<<"test", "plugins">>, "support.test", ".ts"), "base", <<>>),
    GeneratedFile(File(<<"test", "routes">>, "root.test", ".ts"), "base", <<>>),
    GeneratedFile(File(<<>>, "", ".gitignore"), "base", <<>>),
    GeneratedFile(File(<<>>, "", ".env"), "base", <<>>) >>

\* the base files generateProject writes, in the order of its writeFileSync calls
baseGeneratedFiles == <<
    GeneratedFile(File(<<>>, "package", ".json"), "base", <<>>),
    GeneratedFile(File(<<>>, "tsconfig", ".json"), "base", <<>>),
    GeneratedFile(File(<<>>, "app", ".ts"), "base", <<>>),
    GeneratedFile(File(<<"plugins">>, "sensible", ".ts"), "base", <<>>),
    GeneratedFile(File(<<"plugins">>, "support", ".ts"), "base", <<>>),
    GeneratedFile(File(<<"routes">>, "root", ".ts"), "base", <<>>),
    GeneratedFile(File(<<"routes", "root">>, "index", ".ts"), "base", <<>>),
    GeneratedFile(File(<<"test">>, "helper", ".ts"), "base", <<>>),
    GeneratedFile(File(<<"test", "plugins">>, "support.test", ".ts"), "base", <<>>),
    GeneratedFile(File(<<"test", "routes">>, "root.test", ".ts"), "base", <<>>),
    GeneratedFile(File(<<>>, "", ".gitignore"), "base", <<>>),
    GeneratedFile(File(<<>>, "", ".env"), "base", <<>>),
    GeneratedFile(File(<<>>, "README", ".md"), "base", <<>>) >>

\* ensureNoDuplicateFilePaths calls fail() iff some path occurs twice
hasDuplicateFilePath(filePaths) ==
    \E i, j \in 1..Len(filePaths) : i < j /\ filePaths[i] = filePaths[j]

\* the path ensureNoDuplicateFilePaths names: the first one that is already in `seen`
firstDuplicate(filePaths) ==
    LET seenBefore(j) == \E i \in 1..(j - 1) : filePaths[i] = filePaths[j]
    IN  filePaths[CHOOSE j \in 1..Len(filePaths) :
                    seenBefore(j) /\ \A k \in 1..(j - 1) : ~seenBefore(k)]

\* mkdirSync(dirname, { recursive: true }): the directory and its ancestors
dirAndAncestors(dir) == {SubSeq(dir, 1, n) : n \in 1..Len(dir)}

\* mutant: app.ts takes the raw boolean option, not the effective value
appTrustProxyValue_raw(resolvedOptions) == Get(resolvedOptions, "trustProxyEnabled")

\* buildAppTs: const trustProxyValue = resolvedOptions.trustProxyEffective
appTrustProxyValue(resolvedOptions) == Get(resolvedOptions, "trustProxyEffective")

\* `${typeof v === 'string' ? `'${v}'` : v}`: a string is put between quotes
Interpolated(prefix, v) == <<prefix, TypeOf(v) = "string", v>>

\* .filter(Boolean) on an array of strings: the empty strings go
RECURSIVE filterBoolean(_)
filterBoolean(entries) ==
    IF entries = <<>> THEN <<>>
    ELSE IF Head(entries) = <<"">> THEN filterBoolean(Tail(entries))
    ELSE <<Head(entries)>> \o filterBoolean(Tail(entries))

\* mutant: the extras are kept when truthy, so a trustProxy of false is dropped
buildAppTs_truthyExtras(resolvedOptions) ==
    LET trustProxyValue == appTrustProxyValue(resolvedOptions)
        trustProxyEntry == IF Truthy(trustProxyValue)
                           THEN Interpolated("trustProxy: ", trustProxyValue)
                           ELSE <<"">>
        optional(label, key) == IF Truthy(Get(resolvedOptions, key))
                                THEN Interpolated(label, Get(resolvedOptions, key))
                                ELSE <<"">>
        extras == filterBoolean(<<optional("pluginTimeout: ", "pluginTimeout"),
                                  optional("bodyLimit: ", "bodyLimit"),
                                  optional("closeGraceDelay: ", "closeGraceDelay"),
                                  trustProxyEntry>>)
    IN  << <<"  const app = Fastify({ ">> \o extras,
           IF Truthy(Get(resolvedOptions, "prefix"))
           THEN <<"    options: { prefix: '", Get(resolvedOptions, "prefix")>>
           ELSE <<"    options: {}">>,
           IF Truthy(Get(resolvedOptions, "host"))
           THEN <<"    host: '", Get(resolvedOptions, "host")>>
           ELSE <<"    // host: undefined,">> >>

\* the lines of app.ts that depend on the options: the Fastify({ ... }) line with
\* its extras, the options line of the routes autoload, and the host line of listen
buildAppTs(resolvedOptions) ==
    LET trustProxyValue == appTrustProxyValue(resolvedOptions)
        trustProxyEntry == IF trustProxyValue # Undef
                           THEN Interpolated("trustProxy: ", trustProxyValue)
                           ELSE <<"">>
        optional(label, key) == IF Get(resolvedOptions, key) # Undef
                                THEN Interpolated(label, Get(resolvedOptions, key))
                                ELSE <<"">>
        extras == filterBoolean(<<optional("pluginTimeout: ", "pluginTimeout"),
                                  optional("bodyLimit: ", "bodyLimit"),
                                  optional("closeGraceDelay: ", "closeGraceDelay"),
                                  trustProxyEntry>>)
    IN  << <<"  const app = Fastify({ ">> \o extras,
           IF Truthy(Get(resolvedOptions, "prefix"))
           THEN <<"    options: { prefix: '", Get(resolvedOptions, "prefix")>>
           ELSE <<"    options: {}">>,
           IF Truthy(Get(resolvedOptions, "host"))
           THEN <<"    host: '", Get(resolvedOptions, "host")>>
           ELSE <<"    // host: undefined,">> >>

\* the base files with the content of app.ts rendered from the options
renderedBaseFiles(resolvedOptions) ==
    [i \in 1..Len(baseGeneratedFiles) |->
        IF baseGeneratedFiles[i].relativePath = File(<<>>, "app", ".ts")
        THEN GeneratedFile(File(<<>>, "app", ".ts"), "base", buildAppTs(resolvedOptions))
        ELSE baseGeneratedFiles[i]]

-----------------------------------------------------------------------------
(* The lines the operator types. *)

ChoiceInputs == {"", "x", "0", "1", "2", "3", "4", "5", "6", "7", "1.5"}
FreeInputs == {"", " ", "ab", " ab ", "80"}

-----------------------------------------------------------------------------
(* The state after construction: main() has parsed its arguments and is    *)
(* about to call validateNewProjectTarget.                                 *)

InitLocals ==
    /\ exitCode = -1
    /\ errLines = 0
    /\ errMessage = <<>>
    /\ out = <<>>
    /\ fsFiles = {}
    /\ setupReturned = FALSE
    /\ catIdx = 0
    /\ optIdx = 0
    /\ setupAsked = <<>>
    /\ resolverRuns = 0
    /\ lastChoice = <<>>
    /\ lastInput = <<>>
    /\ pluginScaffolds = <<>>
    /\ pluginName = Undef
    /\ routeNames = <<>>
    /\ hookNames = <<>>
    /\ hasDecorator = FALSE
    /\ childPluginName = Undef
    /\ selected = Undef
    /\ lastName = <<>>
    /\ written = <<>>
    /\ appTrustProxy = <<"unread">>

Init ==
    /\ pc = "validate"
    /\ targetDir \in {".", "demo"}
    /\ args = <<targetDir>>
    /\ fsDirs \in {{}, {<<>>}}
    /\ targetDir = "." => fsDirs = {<<>>}
    /\ resolved = EmptyMap
    /\ InitLocals

-----------------------------------------------------------------------------
(* Pieces shared by the actions. *)

\* fail(message): one line on stderr, exit(1)
fail(message) ==
    /\ errLines' = errLines + 1
    /\ errMessage' = message
    /\ exitCode' = 1
    /\ pc' = "exited"

\* an exception leaves main(); main().catch calls fail(err.message)
Throw ==
    /\ fail(<<"TypeError: Cannot read properties of undefined">>)
    /\ out' = <<>>
    /\ UNCHANGED <<argVars, setupVars, wizardVars, fsVars>>

\* askChoice rejects the line: the warning, then the same question again
Reprompt ==
    /\ out' = <<"warn:choice">>
    /\ lastChoice' = <<>>
    /\ lastName' = <<>>
    /\ UNCHANGED <<pc, exitCode, errVars, argVars, setupVars, scaffoldVars, fsVars>>

\* number of categories answered "Configure" so far
NConfigured(asked) ==
    Cardinality({i \in 1..Len(asked) :
        /\ asked[i][1] = "option"
        /\ \E c \in 1..Len(categories) : categories[c].options[1].key = asked[i][2]})

\* the control state of runSetupFlow, as a record
SetupState(p, c, i, r, n, asked, o, returned) ==
    [pc |-> p, catIdx |-> c, optIdx |-> i, resolved |-> r, resolverRuns |-> n,
     setupAsked |-> asked, out |-> o, setupReturned |-> returned]

SetupTo(s) ==
    /\ pc' = s.pc
    /\ catIdx' = s.catIdx
    /\ optIdx' = s.optIdx
    /\ resolved' = s.resolved
    /\ resolverRuns' = s.resolverRuns
    /\ setupAsked' = s.setupAsked
    /\ out' = s.out
    /\ setupReturned' = s.setupReturned
    /\ UNCHANGED <<exitCode, errVars, argVars, wizardVars, fsVars>>

\* printSummary(r); return r: main calls runPluginScaffoldWizard, whose first
\* askChoice prints the plugin menu
returnFromSetup(r, n, asked, o) ==
    SetupState("wizMenu", 0, 0, r, n, asked, Append(o, "summary"), TRUE)

\* runSetupFlow's loop reaches category c: its Skip/Configure question
enterCategory(c, r, n, asked, o) ==
    SetupState("category", c, 0, r, n, Append(asked, <<"category", categories[c].key>>),
               o, FALSE)

\* mutant: runSetupFlow returns without its final applyTrustProxyPrecedence
afterCategory_noFinalResolver(c, r, n, asked, o) ==
    IF c < Len(categories) THEN enterCategory(c + 1, r, n, asked, o)
    ELSE returnFromSetup(r, n, asked, o)

\* runSetupFlow after category c is resolved: the next category, or after the
\* loop applyTrustProxyPrecedence, printSummary and return
afterCategory(c, r, n, asked, o) ==
    IF c < Len(categories) THEN enterCategory(c + 1, r, n, asked, o)
    ELSE returnFromSetup(applyTrustProxyPrecedence(r), n + 1, asked, o)

\* promptCategoryOptions reaches option i of category c: askOption's question
enterOption(c, i, r, n, asked, o) ==
    SetupState("option", c, i, r, n,
               Append(asked, <<"option", categories[c].options[i].key>>), o, FALSE)

\* mutant: the option loop stops one option early
afterOption_offByOne(c, i, r, n, asked, o) ==
    IF i < Len(categories[c].options) - 1 THEN enterOption(c, i + 1, r, n, asked, o)
    ELSE IF categories[c].key = "trustProxy"
    THEN afterCategory(c, applyTrustProxyPrecedence(r), n + 1, asked, o)
    ELSE afterCategory(c, r, n, asked, o)

\* promptCategoryOptions after option i of category c is stored
afterOption(c, i, r, n, asked, o) ==
    IF i < Len(categories[c].options) THEN enterOption(c, i + 1, r, n, asked, o)
    ELSE IF categories[c].key = "trustProxy"
    THEN afterCategory(c, applyTrustProxyPrecedence(r), n + 1, asked, o)
    ELSE afterCategory(c, r, n, asked, o)

-----------------------------------------------------------------------------
(* main() up to the first question. *)

\* mutant: validateNewProjectTarget without its existsSync test
Validate_noExistsTest ==
    /\ pc = "validate"
    /\ IF targetDir = "."
       THEN /\ fail(<<"Current directory generation is disabled in MVP">>)
            /\ UNCHANGED <<out, setupAsked>>
       ELSE /\ pc' = "mode"
            /\ out' = <<>>
            /\ setupAsked' = <<<<"mode">>>>
            /\ UNCHANGED <<exitCode, errVars>>
    /\ UNCHANGED <<argVars, lastChoice, resolved, setupReturned, catIdx, optIdx,
                   resolverRuns, lastInput, wizardVars, fsVars>>

\* validateNewProjectTarget(targetDir), readline.createInterface, and
\* runSetupFlow up to its mode question
Validate ==
    /\ pc = "validate"
    /\ IF targetDir = "." \/ <<>> \in fsDirs
       THEN /\ fail(IF targetDir = "."
                    THEN <<"Current directory generation is disabled in MVP">>
                    ELSE <<"Target directory already exists">>)
            /\ UNCHANGED <<out, setupAsked>>
       ELSE /\ pc' = "mode"
            /\ out' = <<>>
            /\ setupAsked' = <<<<"mode">>>>
            /\ UNCHANGED <<exitCode, errVars>>
    /\ UNCHANGED <<argVars, lastChoice, resolved, setupReturned, catIdx, optIdx,
                   resolverRuns, lastInput, wizardVars, fsVars>>

-----------------------------------------------------------------------------
(* runSetupFlow. *)

\* the answer to "How do you want to set this up?", drawn from `inputs`
AnswerModeFrom(inputs) ==
    \E answer \in inputs :
        /\ pc = "mode"
        /\ IF ~choiceAccepts(answer, modeChoices) THEN Reprompt
           ELSE LET mode == choiceValue(answer, modeChoices)
                IN  /\ lastChoice' = <<modeChoices, mode>>
                    /\ IF mode = Undef
                       THEN Throw      \* mode.startsWith: TypeError
                       ELSE /\ IF StartsWith(mode[2], "Default setup")
                               THEN SetupTo(returnFromSetup(buildAllDefaults,
                                                resolverRuns + 1, setupAsked, <<>>))
                               ELSE SetupTo(enterCategory(1, EmptyMap, resolverRuns,
                                                          setupAsked, <<>>))
                            /\ UNCHANGED lastInput

AnswerMode == AnswerModeFrom(ChoiceInputs)

\* the answer to "<category>: choose how to continue", drawn from `inputs`, with
\* at most maxConfigured categories answered "Configure"
AnswerCategoryFrom(inputs, maxConfigured) ==
    \E answer \in inputs :
        /\ pc = "category"
        /\ IF ~choiceAccepts(answer, categoryChoices) THEN Reprompt
           ELSE LET categoryAction == choiceValue(answer, categoryChoices)
                IN  /\ lastChoice' = <<categoryChoices, categoryAction>>
                    /\ IF categoryAction = Undef
                       THEN Throw      \* categoryAction.startsWith: TypeError
                       ELSE /\ IF StartsWith(categoryAction[2], "Skip")
                               THEN SetupTo(afterCategory(catIdx,
                                        applyCategoryDefaults(categories[catIdx], resolved),
                                        resolverRuns, setupAsked, <<>>))
                               ELSE /\ NConfigured(setupAsked) < maxConfigured
                                    /\ SetupTo(enterOption(catIdx, 1, resolved, resolverRuns,
                                                           setupAsked, <<>>))
                            /\ UNCHANGED lastInput

AnswerCategory == AnswerCategoryFrom(ChoiceInputs, MaxConfigured)

\* the answer to askOption's askChoice (boolean, tri-boolean, choice)
AnswerOptionChoiceFrom(inputs) ==
    \E answer \in inputs :
        LET option == categories[catIdx].options[optIdx]
        IN  /\ pc = "option"
            /\ asksChoice(option)
            /\ IF ~choiceAccepts(answer, optionChoices(option)) THEN Reprompt
               ELSE LET value == choiceValue(answer, optionChoices(option))
                    IN  /\ lastChoice' = <<optionChoices(option), value>>
                        /\ SetupTo(afterOption(catIdx, optIdx,
                                Put(resolved, option.key, choiceOptionValue(value, option)),
                                resolverRuns, setupAsked, <<>>))
                        /\ UNCHANGED lastInput

AnswerOptionChoice == AnswerOptionChoiceFrom(ChoiceInputs)

\* the answer to askOption's askInput (number, string)
AnswerOptionInputFrom(inputs) ==
    \E raw \in inputs :
        LET option == categories[catIdx].options[optIdx]
            response == askInput(raw, option.default)
            value == IF option.type = "number" THEN numberOptionValue(response, option)
                     ELSE stringOptionValue(response)
            warned == /\ option.type = "number"
                      /\ response # ""
                      /\ ToNumber(response) = NaN
        IN  /\ pc = "option"
            /\ ~asksChoice(option)
            /\ lastInput' = <<option.key, raw>>
            /\ SetupTo(afterOption(catIdx, optIdx, Put(resolved, option.key, value),
                                   resolverRuns, setupAsked,
                                   IF warned THEN <<"warn:number">> ELSE <<>>))
            /\ lastChoice' = <<>>

AnswerOptionInput == AnswerOptionInputFrom(FreeInputs)

-----------------------------------------------------------------------------
(* runPluginScaffoldWizard: the menu question. *)

\* the routes, hooks, decorators and child plugins of one scaffold
additionsOf(routes, hooks, decorator, child) ==
    Len(routes) + Len(hooks) + (IF decorator THEN 1 ELSE 0) + (IF Truthy(child) THEN 1 ELSE 0)

RECURSIVE additionsFrom(_, _)
additionsFrom(scaffolds, k) ==
    IF k > Len(scaffolds) THEN 0
    ELSE additionsOf(scaffolds[k].routeNames, scaffolds[k].hookNames,
                     scaffolds[k].hasDecorator, scaffolds[k].childPluginName)
         + additionsFrom(scaffolds, k + 1)

\* number of additions of the run so far: the finished scaffolds and the one
\* under construction
NAdditions ==
    additionsFrom(pluginScaffolds, 1)
        + additionsOf(routeNames, hookNames, hasDecorator, childPluginName)

\* mutant: Child plugin asks for a name also when one is set
dispatchSelection_asksChildAgain(sel) ==
    IF sel = Str("Child plugin")
    THEN pc' = "wizChildName" /\ out' = <<>> /\ UNCHANGED hasDecorator
    ELSE IF sel = Str("Decorator")
    THEN IF hasDecorator
         THEN pc' = "wizMenu" /\ out' = <<"warn:decoratorSelected">> /\ UNCHANGED hasDecorator
         ELSE /\ NAdditions < MaxAdditions
              /\ pc' = "wizMenu" /\ out' = <<"added:decorator">> /\ hasDecorator' = TRUE
    ELSE IF sel = Str("Route")
    THEN pc' = "wizRouteName" /\ out' = <<>> /\ UNCHANGED hasDecorator
    ELSE IF sel = Str("Hook")
    THEN pc' = "wizHookName" /\ out' = <<>> /\ UNCHANGED hasDecorator
    ELSE pc' = "wizMenu" /\ out' = <<>> /\ UNCHANGED hasDecorator

\* the handling of a non-Done selection once the plugin name is known
dispatchSelection(sel) ==
    IF sel = Str("Child plugin")
    THEN IF Truthy(childPluginName)
         THEN pc' = "wizMenu" /\ out' = <<"warn:childSelected">> /\ UNCHANGED hasDecorator
         ELSE pc' = "wizChildName" /\ out' = <<>> /\ UNCHANGED hasDecorator
    ELSE IF sel = Str("Decorator")
    THEN IF hasDecorator
         THEN pc' = "wizMenu" /\ out' = <<"warn:decoratorSelected">> /\ UNCHANGED hasDecorator
         ELSE /\ NAdditions < MaxAdditions
              /\ pc' = "wizMenu" /\ out' = <<"added:decorator">> /\ hasDecorator' = TRUE
    ELSE IF sel = Str("Route")
    THEN pc' = "wizRouteName" /\ out' = <<>> /\ UNCHANGED hasDecorator
    ELSE IF sel = Str("Hook")
    THEN pc' = "wizHookName" /\ out' = <<>> /\ UNCHANGED hasDecorator
    ELSE pc' = "wizMenu" /\ out' = <<>> /\ UNCHANGED hasDecorator

\* mutant: the plugin name is asked on every non-Done selection
WizMenu_asksNameEveryTime(inputs) ==
    \E answer \in inputs :
        /\ pc = "wizMenu"
        /\ IF ~choiceAccepts(answer, pluginMenuChoices) THEN Reprompt
           ELSE LET sel == choiceValue(answer, pluginMenuChoices)
                IN  /\ lastChoice' = <<pluginMenuChoices, sel>>
                    /\ lastName' = <<>>
                    /\ UNCHANGED <<exitCode, errVars, argVars, setupVars, fsVars,
                                   routeNames, hookNames, childPluginName, pluginName>>
                    /\ IF sel = Str("Done")
                       THEN IF ~Truthy(pluginName)
                            THEN /\ pc' = "confirm"
                                 /\ out' = <<"pluginSummary">>
                                 /\ UNCHANGED <<pluginScaffolds, hasDecorator, selected>>
                            ELSE /\ pluginScaffolds' = Append(pluginScaffolds,
                                        [pluginName |-> pluginName[2],
                                         routeNames |-> routeNames,
                                         hookNames |-> hookNames,
                                         hasDecorator |-> hasDecorator,
                                         childPluginName |-> childPluginName,
                                         additions |-> <<>>])
                                 /\ pc' = "wizAnother"
                                 /\ out' = <<>>
                                 /\ UNCHANGED <<hasDecorator, selected>>
                       ELSE /\ pc' = "wizPluginName"
                            /\ selected' = sel
                            /\ out' = <<>>
                            /\ UNCHANGED <<pluginScaffolds, hasDecorator>>

\* mutant: Done without a captured name still asks "scaffold another?"
WizMenu_doneAsksAnother(inputs) ==
    \E answer \in inputs :
        /\ pc = "wizMenu"
        /\ IF ~choiceAccepts(answer, pluginMenuChoices) THEN Reprompt
           ELSE LET sel == choiceValue(answer, pluginMenuChoices)
                IN  /\ lastChoice' = <<pluginMenuChoices, sel>>
                    /\ lastName' = <<>>
                    /\ UNCHANGED <<exitCode, errVars, argVars, setupVars, fsVars,
                                   routeNames, hookNames, childPluginName, pluginName>>
                    /\ IF sel = Str("Done")
                       THEN IF ~Truthy(pluginName)
                            THEN /\ pc' = "wizAnother"
                                 /\ out' = <<>>
                                 /\ UNCHANGED <<pluginScaffolds, hasDecorator, selected>>
                            ELSE /\ pluginScaffolds' = Append(pluginScaffolds,
                                        [pluginName |-> pluginName[2],
                                         routeNames |-> routeNames,
                                         hookNames |-> hookNames,
                                         hasDecorator |-> hasDecorator,
                                         childPluginName |-> childPluginName,
                                         additions |-> <<>>])
                                 /\ pc' = "wizAnother"
                                 /\ out' = <<>>
                                 /\ UNCHANGED <<hasDecorator, selected>>
                       ELSE IF ~Truthy(pluginName)
                       THEN /\ pc' = "wizPluginName"
                            /\ selected' = sel
                            /\ out' = <<>>
                            /\ UNCHANGED <<pluginScaffolds, hasDecorator>>
                       ELSE /\ dispatchSelection(sel)
                            /\ UNCHANGED <<pluginScaffolds, selected>>

\* the answer to "What would you like to add?", drawn from `inputs`
WizMenu(inputs) ==
    \E answer \in inputs :
        /\ pc = "wizMenu"
        /\ IF ~choiceAccepts(answer, pluginMenuChoices) THEN Reprompt
           ELSE LET sel == choiceValue(answer, pluginMenuChoices)
                IN  /\ lastChoice' = <<pluginMenuChoices, sel>>
                    /\ lastName' = <<>>
                    /\ UNCHANGED <<exitCode, errVars, argVars, setupVars, fsVars,
                                   routeNames, hookNames, childPluginName, pluginName>>
                    /\ IF sel = Str("Done")
                       THEN IF ~Truthy(pluginName)
                            THEN \* the wizard returns; printPluginScaffoldSummary; the
                                 \* "Setup complete. Continue?" question
                                 /\ pc' = "confirm"
                                 /\ out' = <<"pluginSummary">>
                                 /\ UNCHANGED <<pluginScaffolds, hasDecorator, selected>>
                            ELSE /\ pluginScaffolds' = Append(pluginScaffolds,
                                        [pluginName |-> pluginName[2],
                                         routeNames |-> routeNames,
                                         hookNames |-> hookNames,
                                         hasDecorator |-> hasDecorator,
                                         childPluginName |-> childPluginName,
                                         additions |-> <<>>])
                                 /\ pc' = "wizAnother"
                                 /\ out' = <<>>
                                 /\ UNCHANGED <<hasDecorator, selected>>
                       ELSE IF ~Truthy(pluginName)
                       THEN /\ pc' = "wizPluginName"
                            /\ selected' = sel
                            /\ out' = <<>>
                            /\ UNCHANGED <<pluginScaffolds, hasDecorator>>
                       ELSE /\ dispatchSelection(sel)
                            /\ UNCHANGED <<pluginScaffolds, selected>>

-----------------------------------------------------------------------------
(* runPluginScaffoldWizard: the name questions.  One step is one round of  *)
(* askPluginName's loop: a line, askInput, the pattern test.  The lines    *)
(* are drawn from `inputs`.                                                *)

\* askPluginName rejects the line: the warning, then the same question again
RepromptName(label, raw) ==
    /\ lastName' = <<label, raw, askInput(raw, Undef), FALSE>>
    /\ out' = <<"warn:name">>
    /\ lastChoice' = <<>>
    /\ UNCHANGED <<pc, exitCode, errVars, argVars, setupVars, fsVars, scaffoldVars>>

\* the answer to "Plugin name", then the handling of the suspended selection
WizPluginName(inputs) ==
    \E raw \in inputs :
        LET name == askInput(raw, Undef)
        IN  /\ pc = "wizPluginName"
            /\ IF ~testPluginName(name) THEN RepromptName("Plugin name", raw)
               ELSE /\ lastName' = <<"Plugin name", raw, name, TRUE>>
                    /\ pluginName' = Str(name)
                    /\ dispatchSelection(selected)
                    /\ selected' = Undef
                    /\ lastChoice' = <<>>
                    /\ UNCHANGED <<exitCode, errVars, argVars, setupVars, fsVars,
                                   pluginScaffolds, routeNames, hookNames, childPluginName>>

\* mutant: the child name is compared with the parent's before it is stored,
\* and an equal name is accepted
WizChildName_acceptsParent(inputs) ==
    \E raw \in inputs :
        LET name == askInput(raw, Undef)
        IN  /\ pc = "wizChildName"
            /\ IF ~testPluginName(name) THEN RepromptName("Child plugin name", raw)
               ELSE /\ lastName' = <<"Child plugin name", raw, name, TRUE>>
                    /\ Truthy(childPluginName) \/ NAdditions < MaxAdditions
                    /\ childPluginName' = Str(name)
                    /\ pc' = "wizMenu"
                    /\ out' = <<"added:child">>
                    /\ lastChoice' = <<>>
                    /\ UNCHANGED <<exitCode, errVars, argVars, setupVars, fsVars,
                                   pluginScaffolds, pluginName, routeNames, hookNames,
                                   hasDecorator, selected>>

\* the answer to "Child plugin name"
WizChildName(inputs) ==
    \E raw \in inputs :
        LET name == askInput(raw, Undef)
        IN  /\ pc = "wizChildName"
            /\ IF ~testPluginName(name) THEN RepromptName("Child plugin name", raw)
               ELSE /\ lastName' = <<"Child plugin name", raw, name, TRUE>>
                    /\ Truthy(childPluginName) \/ NAdditions < MaxAdditions
                    /\ childPluginName' = Str(name)
                    /\ IF Str(name) # pluginName
                       THEN pc' = "wizMenu" /\ out' = <<"added:child">>
                       ELSE pc' = "wizChildName" /\ out' = <<"warn:childSameAsParent">>
                    /\ lastChoice' = <<>>
                    /\ UNCHANGED <<exitCode, errVars, argVars, setupVars, fsVars,
                                   pluginScaffolds, pluginName, routeNames, hookNames,
                                   hasDecorator, selected>>

\* routeNames.includes(routeName), hookNames.includes(hookName)
includes(names, name) == \E i \in 1..Len(names) : names[i] = name

\* mutant: the route is pushed without the includes test
WizRouteName_noIncludesTest(inputs) ==
    \E raw \in inputs :
        LET routeName == askInput(raw, Undef)
        IN  /\ pc = "wizRouteName"
            /\ IF ~testPluginName(routeName) THEN RepromptName("Route name", raw)
               ELSE /\ lastName' = <<"Route name", raw, routeName, TRUE>>
                    /\ pc' = "wizMenu"
                    /\ NAdditions < MaxAdditions
                    /\ routeNames' = Append(routeNames, routeName)
                    /\ out' = <<"added:route">>
                    /\ lastChoice' = <<>>
                    /\ UNCHANGED <<exitCode, errVars, argVars, setupVars, fsVars,
                                   pluginScaffolds, pluginName, hookNames, hasDecorator,
                                   childPluginName, selected>>

\* the answer to "Route name"
WizRouteName(inputs) ==
    \E raw \in inputs :
        LET routeName == askInput(raw, Undef)
        IN  /\ pc = "wizRouteName"
            /\ IF ~testPluginName(routeName) THEN RepromptName("Route name", raw)
               ELSE /\ lastName' = <<"Route name", raw, routeName, TRUE>>
                    /\ pc' = "wizMenu"
                    /\ IF includes(routeNames, routeName)
                       THEN /\ out' = <<"warn:routeExists">>
                            /\ UNCHANGED routeNames
                       ELSE /\ NAdditions < MaxAdditions
                            /\ routeNames' = Append(routeNames, routeName)
                            /\ out' = <<"added:route">>
                    /\ lastChoice' = <<>>
                    /\ UNCHANGED <<exitCode, errVars, argVars, setupVars, fsVars,
                                   pluginScaffolds, pluginName, hookNames, hasDecorator,
                                   childPluginName, selected>>

\* the answer to "Hook name"
WizHookName(inputs) ==
    \E raw \in inputs :
        LET hookName == askInput(raw, Undef)
        IN  /\ pc = "wizHookName"
            /\ IF ~testPluginName(hookName) THEN RepromptName("Hook name", raw)
               ELSE /\ lastName' = <<"Hook name", raw, hookName, TRUE>>
                    /\ pc' = "wizMenu"
                    /\ IF includes(hookNames, hookName)
                       THEN /\ out' = <<"warn:hookExists">>
                            /\ UNCHANGED hookNames
                       ELSE /\ NAdditions < MaxAdditions
                            /\ hookNames' = Append(hookNames, hookName)
                            /\ out' = <<"added:hook">>
                    /\ lastChoice' = <<>>
                    /\ UNCHANGED <<exitCode, errVars, argVars, setupVars, fsVars,
                                   pluginScaffolds, pluginName, routeNames, hasDecorator,
                                   childPluginName, selected>>

\* mutant: Yes returns the list and any other value starts the next scaffold
WizAnother_yesReturns ==
    \E answer \in ChoiceInputs :
        /\ pc = "wizAnother"
        /\ IF ~choiceAccepts(answer, anotherChoices) THEN Reprompt
           ELSE LET addAnotherPlugin == choiceValue(answer, anotherChoices)
                IN  /\ lastChoice' = <<anotherChoices, addAnotherPlugin>>
                    /\ IF addAnotherPlugin = Str("Yes")
                       THEN pc' = "confirm" /\ out' = <<"pluginSummary">>
                       ELSE /\ Len(pluginScaffolds) < MaxScaffolds
                            /\ pc' = "wizMenu"
                            /\ out' = <<>>
                    /\ pluginName' = Undef
                    /\ routeNames' = <<>>
                    /\ hookNames' = <<>>
                    /\ hasDecorator' = FALSE
                    /\ childPluginName' = Undef
                    /\ lastName' = <<>>
                    /\ UNCHANGED <<exitCode, errVars, argVars, setupVars, fsVars,
                                   pluginScaffolds, selected>>

\* mutant: after No the question "Add another plugin?" is asked again
WizAnother_noAsksAgain ==
    \E answer \in ChoiceInputs :
        /\ pc = "wizAnother"
        /\ IF ~choiceAccepts(answer, anotherChoices) THEN Reprompt
           ELSE LET addAnotherPlugin == choiceValue(answer, anotherChoices)
                IN  /\ lastChoice' = <<anotherChoices, addAnotherPlugin>>
                    /\ IF addAnotherPlugin = Str("No")
                       THEN pc' = "wizAnother" /\ out' = <<>>
                       ELSE /\ Len(pluginScaffolds) < MaxScaffolds
                            /\ pc' = "wizMenu"
                            /\ out' = <<>>
                    /\ pluginName' = Undef
                    /\ routeNames' = <<>>
                    /\ hookNames' = <<>>
                    /\ hasDecorator' = FALSE
                    /\ childPluginName' = Undef
                    /\ lastName' = <<>>
                    /\ UNCHANGED <<exitCode, errVars, argVars, setupVars, fsVars,
                                   pluginScaffolds, selected>>

\* mutant: the route and hook lists are declared once, outside the loop
WizAnother_keepsLists ==
    \E answer \in ChoiceInputs :
        /\ pc = "wizAnother"
        /\ IF ~choiceAccepts(answer, anotherChoices) THEN Reprompt
           ELSE LET addAnotherPlugin == choiceValue(answer, anotherChoices)
                IN  /\ lastChoice' = <<anotherChoices, addAnotherPlugin>>
                    /\ IF addAnotherPlugin = Str("No")
                       THEN pc' = "confirm" /\ out' = <<"pluginSummary">>
                       ELSE /\ Len(pluginScaffolds) < MaxScaffolds
                            /\ pc' = "wizMenu"
                            /\ out' = <<>>
                    /\ pluginName' = Undef
                    /\ hasDecorator' = FALSE
                    /\ childPluginName' = Undef
                    /\ lastName' = <<>>
                    /\ UNCHANGED <<exitCode, errVars, argVars, setupVars, fsVars,
                                   pluginScaffolds, selected, routeNames, hookNames>>

\* the answer to "Would you like to scaffold another plugin?": No returns the
\* list to main (printPluginScaffoldSummary, the confirmation question), any
\* other value starts the next scaffold with fresh locals
WizAnother ==
    \E answer \in ChoiceInputs :
        /\ pc = "wizAnother"
        /\ IF ~choiceAccepts(answer, anotherChoices) THEN Reprompt
           ELSE LET addAnotherPlugin == choiceValue(answer, anotherChoices)
                IN  /\ lastChoice' = <<anotherChoices, addAnotherPlugin>>
                    /\ IF addAnotherPlugin = Str("No")
                       THEN pc' = "confirm" /\ out' = <<"pluginSummary">>
                       ELSE /\ Len(pluginScaffolds) < MaxScaffolds
                            /\ pc' = "wizMenu"
                            /\ out' = <<>>
                    /\ pluginName' = Undef
                    /\ routeNames' = <<>>
                    /\ hookNames' = <<>>
                    /\ hasDecorator' = FALSE
                    /\ childPluginName' = Undef
                    /\ lastName' = <<>>
                    /\ UNCHANGED <<exitCode, errVars, argVars, setupVars, fsVars,
                                   pluginScaffolds, selected>>

-----------------------------------------------------------------------------
(* main() after the wizard: the confirmation and generateProject. *)

\* mutant: the duplicate check is skipped and every file is written
generateProject_noDuplicateCheck(fsFailAt) ==
    LET customPluginFiles == buildCustomPluginFiles(pluginScaffolds)
        files == baseGeneratedFiles \o customPluginFiles
    IN  IF <<>> \in fsDirs
        THEN /\ fail(<<"EEXIST: file already exists, mkdir">>)
             /\ out' = <<>>
             /\ UNCHANGED fsVars
        ELSE /\ appTrustProxy' = appTrustProxyValue(resolved)
             /\ fsDirs' = fsDirs \cup {<<>>} \cup baseDirs
                    \cup UNION {dirAndAncestors(customPluginFiles[i].relativePath[1]) :
                                    i \in 1..Len(customPluginFiles)}
             /\ fsFiles' = fsFiles \cup {files[i].relativePath : i \in 1..Len(files)}
             /\ written' = written
                    \o [i \in 1..Len(files) |-> <<files[i].relativePath, files[i].content>>]
             /\ out' = <<"created">>
             /\ exitCode' = 0
             /\ pc' = "exited"
             /\ UNCHANGED errVars

\* mutant: the target is created with { recursive: true }, so an existing one is reused
generateProject_reuseTarget(fsFailAt) ==
    LET customPluginFiles == buildCustomPluginFiles(pluginScaffolds)
        files == baseGeneratedFiles \o customPluginFiles
    IN  /\ appTrustProxy' = appTrustProxyValue(resolved)
        /\ fsDirs' = fsDirs \cup {<<>>} \cup baseDirs
               \cup UNION {dirAndAncestors(customPluginFiles[i].relativePath[1]) :
                               i \in 1..Len(customPluginFiles)}
        /\ fsFiles' = fsFiles \cup {files[i].relativePath : i \in 1..Len(files)}
        /\ written' = written
               \o [i \in 1..Len(files) |-> <<files[i].relativePath, files[i].content>>]
        /\ out' = <<"created">>
        /\ exitCode' = 0
        /\ pc' = "exited"
        /\ UNCHANGED errVars

\* mutant: a file system error is caught and the run reports success
generateProject_swallowsErrors(fsFailAt) ==
    LET customPluginFiles == buildCustomPluginFiles(pluginScaffolds)
        files == baseGeneratedFiles \o customPluginFiles
        filePaths == baseGeneratedFilePaths
                        \o [i \in 1..Len(customPluginFiles) |-> customPluginFiles[i].relativePath]
    IN  IF <<>> \in fsDirs \/ fsFailAt = 0 \/ hasDuplicateFilePath(filePaths)
        THEN /\ out' = <<"created">>
             /\ exitCode' = 0
             /\ pc' = "exited"
             /\ UNCHANGED <<errVars, fsVars>>
        ELSE /\ appTrustProxy' = appTrustProxyValue(resolved)
             /\ fsDirs' = fsDirs \cup {<<>>} \cup baseDirs
                    \cup UNION {dirAndAncestors(customPluginFiles[i].relativePath[1]) :
                                    i \in 1..Len(customPluginFiles)}
             /\ fsFiles' = fsFiles \cup {files[i].relativePath : i \in 1..Len(files)}
             /\ written' = written
                    \o [i \in 1..Len(files) |-> <<files[i].relativePath, files[i].content>>]
             /\ out' = <<"created">>
             /\ exitCode' = 0
             /\ pc' = "exited"
             /\ UNCHANGED errVars

\* mutant: ensureNoDuplicateFilePaths is called before the first mkdirSync
generateProject_checkBeforeMkdir(fsFailAt) ==
    LET customPluginFiles == buildCustomPluginFiles(pluginScaffolds)
        files == baseGeneratedFiles \o customPluginFiles
        filePaths == baseGeneratedFilePaths
                        \o [i \in 1..Len(customPluginFiles) |-> customPluginFiles[i].relativePath]
    IN  IF hasDuplicateFilePath(filePaths)
        THEN /\ fail(<<"Duplicate generated file detected", firstDuplicate(filePaths)>>)
             /\ out' = <<>>
             /\ UNCHANGED fsVars
        ELSE IF <<>> \in fsDirs \/ fsFailAt = 0
        THEN /\ fail(IF <<>> \in fsDirs THEN <<"EEXIST: file already exists, mkdir">>
                     ELSE <<"EACCES: permission denied, mkdir">>)
             /\ out' = <<>>
             /\ UNCHANGED fsVars
        ELSE /\ appTrustProxy' = appTrustProxyValue(resolved)
             /\ fsDirs' = fsDirs \cup {<<>>} \cup baseDirs
                    \cup UNION {dirAndAncestors(customPluginFiles[i].relativePath[1]) :
                                    i \in 1..Len(customPluginFiles)}
             /\ fsFiles' = fsFiles \cup {files[i].relativePath : i \in 1..Len(files)}
             /\ written' = written
                    \o [i \in 1..Len(files) |-> <<files[i].relativePath, files[i].content>>]
             /\ out' = <<"created">>
             /\ exitCode' = 0
             /\ pc' = "exited"
             /\ UNCHANGED errVars

\* generateProject(targetDir, resolvedOptions, pluginScaffolds) and main()'s success
\* message.  fsFailAt is the file system's part: -1 when no call fails, 0 when the
\* first mkdirSync throws for a reason other than EEXIST, k when the k-th
\* writeFileSync throws.  A thrown error leaves main(); main().catch calls fail().
generateProject(fsFailAt) ==
    \* the three lists are built once per call
    \E customPluginFiles \in {buildCustomPluginFiles(pluginScaffolds)} :
    \E files \in {renderedBaseFiles(resolved) \o customPluginFiles} :
    \E filePaths \in {baseGeneratedFilePaths
                        \o [i \in 1..Len(customPluginFiles) |-> customPluginFiles[i].relativePath]} :
    LET nBase == Len(baseGeneratedFiles)
        \* the number of writeFileSync calls that return
        nWritten == IF fsFailAt >= 1 /\ fsFailAt <= Len(files) THEN fsFailAt - 1
                    ELSE Len(files)
        \* the plugin files whose directory mkdirSync(..., { recursive: true }) made
        nCustomDirs == IF nWritten = Len(files) THEN Len(customPluginFiles)
                       ELSE IF nWritten >= nBase THEN nWritten - nBase + 1
                       ELSE 0
    IN  IF <<>> \in fsDirs \/ fsFailAt = 0
        THEN \* mkdirSync(absoluteTarget, { recursive: false }) throws (EEXIST, EACCES, ...)
             /\ fail(IF <<>> \in fsDirs THEN <<"EEXIST: file already exists, mkdir">>
                     ELSE <<"EACCES: permission denied, mkdir">>)
             /\ out' = <<>>
             /\ UNCHANGED fsVars
        ELSE /\ appTrustProxy' = appTrustProxyValue(resolved)
             /\ IF hasDuplicateFilePath(filePaths)
                THEN \* ensureNoDuplicateFilePaths: fail(), the directories stay
                     /\ fsDirs' = fsDirs \cup {<<>>} \cup baseDirs
                     /\ fail(<<"Duplicate generated file detected", firstDuplicate(filePaths)>>)
                     /\ out' = <<>>
                     /\ UNCHANGED <<fsFiles, written>>
                ELSE /\ fsDirs' = fsDirs \cup {<<>>} \cup baseDirs
                            \cup UNION {dirAndAncestors(customPluginFiles[i].relativePath[1]) :
                                            i \in 1..nCustomDirs}
                     /\ fsFiles' = fsFiles \cup {files[i].relativePath : i \in 1..nWritten}
                     /\ written' = written
                            \o [i \in 1..nWritten |-> <<files[i].relativePath, files[i].content>>]
                     /\ IF nWritten < Len(files)
                        THEN /\ fail(<<"ENOSPC: no space left on device, write">>)
                             /\ out' = <<>>
                        ELSE /\ out' = <<"created">>
                             /\ exitCode' = 0
                             /\ pc' = "exited"
                             /\ UNCHANGED errVars

\* the calls of the file system that can fail in a run
FsFailPoints == {-1, 0, 1, 14}

\* the answer to "Setup complete. Continue?"
ConfirmWith(fsFailPoints) ==
    \E answer \in ChoiceInputs, fsFailAt \in fsFailPoints :
        /\ pc = "confirm"
        /\ IF ~choiceAccepts(answer, confirmChoices) THEN Reprompt
           ELSE LET shouldRun == choiceValue(answer, confirmChoices)
                IN  /\ lastChoice' = <<confirmChoices, shouldRun>>
                    /\ UNCHANGED <<argVars, setupVars, wizardVars>>
                    /\ IF shouldRun = Str("Cancel")
                       THEN /\ out' = <<"cancelled">>
                            /\ exitCode' = 0
                            /\ pc' = "exited"
                            /\ UNCHANGED <<errVars, fsVars>>
                       ELSE generateProject(fsFailAt)

Confirm == ConfirmWith(FsFailPoints)

-----------------------------------------------------------------------------
(* The specification of the setup flow inside main(): every answer of the  *)
(* setup flow and of the confirmation, with an operator who scaffolds no   *)
(* plugin.                                                                 *)

NoScaffoldInputs == {"", "x", "0", "5", "7"}

Next ==
    \/ Validate
    \/ AnswerMode
    \/ AnswerCategory
    \/ AnswerOptionChoice
    \/ AnswerOptionInput
    \/ WizMenu(NoScaffoldInputs)
    \/ Confirm

Spec == Init /\ [][Next]_vars

-----------------------------------------------------------------------------
(* runSetupFlow in Guided setup with several categories configured: the    *)
(* operator answers the menus with 1, 2 or 3 and the free-text questions   *)
(* with 80; the run is followed up to the return of runSetupFlow.          *)

\* At most this many categories are answered "Configure" in one such run.
MaxGuidedConfigured == 3

GuidedChoiceInputs == {"1", "2", "3"}
GuidedFreeInputs == {"80"}

InitGuided ==
    /\ pc = "validate"
    /\ targetDir = "demo"
    /\ args = <<targetDir>>
    /\ fsDirs = {}
    /\ resolved = EmptyMap
    /\ InitLocals

NextGuided ==
    \/ Validate
    \/ AnswerModeFrom({"2"})
    \/ AnswerCategoryFrom(GuidedChoiceInputs, MaxGuidedConfigured)
    \/ AnswerOptionChoiceFrom(GuidedChoiceInputs)
    \/ AnswerOptionInputFrom(GuidedFreeInputs)

SpecGuided == InitGuided /\ [][NextGuided]_vars

-----------------------------------------------------------------------------
(* The whole of main(): the argument handling, the target validation, the  *)
(* setup flow answered with "Default setup", the plugin scaffold wizard,   *)
(* the confirmation and the generation, next to another process that may   *)
(* create the target directory at any moment.                              *)

ArgLists ==
    {<<>>, <<"--help">>, <<"demo", "-h">>, <<"generate">>, <<"">>, <<".">>, <<"demo">>,
     <<"demo", "--port">>, <<"demo", "x">>}

InitMain ==
    /\ pc = "main"
    /\ args \in ArgLists
    /\ targetDir = ""
    /\ fsDirs \in {{}, {<<>>}}
    /\ (args # <<>> /\ args[1] = ".") => fsDirs = {<<>>}
    /\ resolved = EmptyMap
    /\ InitLocals

\* main() from its first line to the call of validateNewProjectTarget
ParseArguments ==
    /\ pc = "main"
    /\ IF \/ Len(args) = 0
          \/ \E i \in 1..Len(args) : args[i] \in {"--help", "-h"}
       THEN \* printHelp(); exit(0)
            /\ out' = <<"help">>
            /\ exitCode' = 0
            /\ pc' = "exited"
            /\ UNCHANGED <<errVars, targetDir>>
       ELSE IF \/ args[1] = "generate"
               \/ args[1] = ""
               \/ \E i \in 2..Len(args) : StartsWithDash(args[i])
               \/ \E i \in 2..Len(args) : ~StartsWithDash(args[i])
       THEN /\ fail(IF args[1] = "generate" THEN <<"Invalid command">>
                    ELSE IF args[1] = "" THEN <<"Missing target directory">>
                    ELSE IF \E i \in 2..Len(args) : StartsWithDash(args[i])
                    THEN <<"Option flags are disabled in MVP setup flow">>
                    ELSE <<"Unexpected argument">>)
            /\ UNCHANGED <<out, targetDir>>
       ELSE /\ targetDir' = args[1]
            /\ pc' = "validate"
            /\ UNCHANGED <<out, exitCode, errVars>>
    /\ UNCHANGED <<args, lastChoice, setupVars, wizardVars, fsVars>>

\* another process creates the target directory, with a file of its own in it
OtherProcessCreatesTarget ==
    /\ pc # "exited"
    /\ <<>> \notin fsDirs
    /\ fsDirs' = fsDirs \cup {<<>>}
    /\ fsFiles' = fsFiles \cup {File(<<>>, "package", ".json")}
    /\ UNCHANGED <<pc, exitCode, errVars, out, argVars, lastChoice, setupVars, wizardVars,
                   written, appTrustProxy>>

QuickStartInputs == {"", "1", "1.5"}
MainMenuInputs == {"x", "1", "3", "5", "1.5"}
MainPluginNames == {"sensible", " billing "}
MainRouteNames == {"users"}

NextMain ==
    \/ ParseArguments
    \/ Validate
    \/ AnswerModeFrom(QuickStartInputs)
    \/ WizMenu(MainMenuInputs)
    \/ WizPluginName(MainPluginNames)
    \/ WizRouteName(MainRouteNames)
    \/ WizAnother
    \/ Confirm
    \/ OtherProcessCreatesTarget

SpecMain == InitMain /\ [][NextMain]_vars

-----------------------------------------------------------------------------
(* main() with an operator who cooperates.  The program's own steps are    *)
(* taken when they can be; a question that stays pending gets an accepted  *)
(* answer; the operator who is shown the plugin menu again and again       *)
(* chooses Done at some time, and the one asked "Add another plugin?"      *)
(* again and again answers No at some time.                                *)

\* the lines of the cooperative operator's session
FairMenuInputs == {"x", "1", "3", "5", "1.5"}
FairPluginNames == {"My-Plugin", "sensible"}
FairRouteNames == {"users"}

\* a step of main() between two questions
ProgramStep == ParseArguments \/ Validate

\* a line is read at the pending question
AnswerStep ==
    \/ AnswerModeFrom(QuickStartInputs)
    \/ WizMenu(FairMenuInputs)
    \/ WizPluginName(FairPluginNames)
    \/ WizRouteName(FairRouteNames)
    \/ WizAnother
    \/ Confirm

\* askChoice or askPluginName takes the line as an answer (no warning, no re-ask)
AcceptedAnswer == AnswerStep /\ out' \notin {<<"warn:choice">>, <<"warn:name">>}

ChoosesDone == WizMenu(FairMenuInputs) /\ lastChoice' = <<pluginMenuChoices, Str("Done")>>

AnswersNo == WizAnother /\ lastChoice' = <<anotherChoices, Str("No")>>

CooperativeOperator ==
    /\ WF_vars(ProgramStep)
    /\ WF_vars(AcceptedAnswer)
    /\ SF_vars(ChoosesDone)
    /\ SF_vars(AnswersNo)

NextMainFair == ProgramStep \/ AnswerStep \/ OtherProcessCreatesTarget

SpecMainFair == InitMain /\ [][NextMainFair]_vars /\ CooperativeOperator

-----------------------------------------------------------------------------
(* runPluginScaffoldWizard, with every menu answer and every kind of name: *)
(* main() has run a Default setup in the new directory "demo" and calls    *)
(* the wizard; after the wizard come the confirmation and the generation,  *)
(* on a file system that does not fail.                                    *)

PluginNameInputs == {"", "My-Plugin", " billing "}
ChildNameInputs == {"billing", "my-plugin1", "1plugin"}
RouteNameInputs == {"users", "invoices", "a b"}
HookNameInputs == {"audit", " "}

InitWizard ==
    /\ pc = "wizMenu"
    /\ targetDir = "demo"
    /\ args = <<targetDir>>
    /\ exitCode = -1
    /\ errLines = 0
    /\ errMessage = <<>>
    /\ out = <<"summary">>
    /\ fsDirs = {}
    /\ fsFiles = {}
    /\ written = <<>>
    /\ appTrustProxy = <<"unread">>
    /\ resolved = buildAllDefaults
    /\ setupReturned = TRUE
    /\ catIdx = 0
    /\ optIdx = 0
    /\ setupAsked = <<<<"mode">>>>
    /\ resolverRuns = 1
    /\ lastChoice = <<modeChoices, Str("Default setup (quick start)")>>
    /\ lastInput = <<>>
    /\ pluginScaffolds = <<>>
    /\ pluginName = Undef
    /\ routeNames = <<>>
    /\ hookNames = <<>>
    /\ hasDecorator = FALSE
    /\ childPluginName = Undef
    /\ selected = Undef
    /\ lastName = <<>>

NextWizard ==
    \/ WizMenu(ChoiceInputs)
    \/ WizPluginName(PluginNameInputs)
    \/ WizChildName(ChildNameInputs)
    \/ WizRouteName(RouteNameInputs)
    \/ WizHookName(HookNameInputs)
    \/ WizAnother
    \/ ConfirmWith({-1})

SpecWizard == InitWizard /\ [][NextWizard]_vars

-----------------------------------------------------------------------------
(* askInput as a pure function of the line and the default: the            *)
(* specification draws a number or string option (its default is the       *)
(* default askOption passes) and a line, and makes the one call.           *)

InputOptions ==
    UNION {{categories[c].options[i] : i \in 1..Len(categories[c].options)} :
            c \in 1..Len(categories)}

InputLines == {"", " ", "ab", " ab ", "80", " billing ", "My-Plugin", "1.5", "a b"}

InitAskInput ==
    /\ pc = "askInput"
    /\ targetDir = "demo"
    /\ args = <<targetDir>>
    /\ fsDirs = {}
    /\ resolved = EmptyMap
    /\ exitCode = -1
    /\ errLines = 0
    /\ errMessage = <<>>
    /\ out = <<>>
    /\ fsFiles = {}
    /\ setupReturned = FALSE
    /\ catIdx = 0
    /\ optIdx = 0
    /\ setupAsked = <<>>
    /\ resolverRuns = 0
    /\ lastChoice = <<>>
    /\ \E option \in InputOptions, raw \in InputLines :
            /\ option.type \in {"number", "string"}
            /\ lastInput = <<option.key, raw>>
    /\ pluginScaffolds = <<>>
    /\ pluginName = Undef
    /\ routeNames = <<>>
    /\ hookNames = <<>>
    /\ hasDecorator = FALSE
    /\ childPluginName = Undef
    /\ selected = Undef
    /\ lastName = <<>>
    /\ written = <<>>
    /\ appTrustProxy = <<"unread">>

\* response = await askInput(rl, option.label, option.default), the line being lastInput[2]
CallAskInput ==
    /\ pc = "askInput"
    /\ \E option \in InputOptions :
            /\ option.key = lastInput[1]
            /\ lastName' = <<option.key, lastInput[2], askInput(lastInput[2], option.default),
                             TRUE>>
    /\ pc' = "askInputReturned"
    /\ UNCHANGED <<exitCode, errVars, out, argVars, lastChoice, setupVars, scaffoldVars, fsVars>>

NextAskInput == CallAskInput

SpecAskInput == InitAskInput /\ [][NextAskInput]_vars

-----------------------------------------------------------------------------
(* applyTrustProxyPrecedence as a pure function: the specification draws   *)
(* the raw values, and a value left in trustProxyEffective by an earlier   *)
(* run, from bounded sets and applies the function once.                   *)

RawEnabled == {Undef, Bool(FALSE), Bool(TRUE)}
RawIps == {Undef, Str(""), Str("ab"), Str("80")}
RawHop == {Undef, Num(0, 0), Num(1, 0), Num(80, 0), Num(1, 5)}
RawMaps ==
    {<<<<"trustProxyEnabled", e>>, <<"trustProxyIps", i>>, <<"trustProxyHop", h>>>> :
     e \in RawEnabled, i \in RawIps, h \in RawHop}

InitPrecedence ==
    /\ pc = "applyTrustProxyPrecedence"
    /\ targetDir = "demo"
    /\ args = <<targetDir>>
    /\ fsDirs = {}
    /\ resolved \in RawMaps \cup {Put(r, "trustProxyEffective", Bool(TRUE)) : r \in RawMaps}
                    \cup {<<<<"port", Num(3000, 0)>>>> \o r \o <<<<"host", Str("ab")>>>> :
                            r \in RawMaps}
    /\ InitLocals

CallPrecedence ==
    /\ pc = "applyTrustProxyPrecedence"
    /\ resolved' = applyTrustProxyPrecedence(resolved)
    /\ resolverRuns' = resolverRuns + 1
    /\ pc' = "precedenceReturned"
    /\ UNCHANGED <<exitCode, errVars, out, argVars, lastChoice, setupReturned, catIdx,
                   optIdx, setupAsked, lastInput, wizardVars, fsVars>>

\* the function applied to its own result
CallPrecedenceAgain ==
    /\ pc = "precedenceReturned"
    /\ resolved' = applyTrustProxyPrecedence(resolved)
    /\ resolverRuns' = resolverRuns + 1
    /\ pc' = "precedenceReapplied"
    /\ UNCHANGED <<exitCode, errVars, out, argVars, lastChoice, setupReturned, catIdx,
                   optIdx, setupAsked, lastInput, wizardVars, fsVars>>

NextPrecedence == CallPrecedence \/ CallPrecedenceAgain

SpecPrecedence == InitPrecedence /\ [][NextPrecedence]_vars

-----------------------------------------------------------------------------
(* The claims. *)

\* The precedence rule of the specification, stated on values.
precedenceRule(r) ==
    LET enabled == Get(r, "trustProxyEnabled")
        ips == Get(r, "trustProxyIps")
        hop == Get(r, "trustProxyHop")
    IN  IF enabled \in {Bool(TRUE), Bool(FALSE)} THEN enabled
        ELSE IF ips[1] = "string" /\ ips # Str("") THEN ips
        ELSE IF hop[1] = "number" THEN hop
        ELSE Undef

\* C1: for every combination of raw trustProxyEnabled, trustProxyIps and
\* trustProxyHop, applyTrustProxyPrecedence leaves in trustProxyEffective the
\* first match of: the boolean (false included), the non-empty string, the
\* number, undefined.
C1_PrecedenceFirstMatch ==
    pc = "precedenceReturned" =>
        /\ "trustProxyEffective" \in Keys(resolved)
        /\ Get(resolved, "trustProxyEffective") = precedenceRule(resolved)

C1_Witness ==
    /\ pc = "precedenceReturned"
    /\ Get(resolved, "trustProxyEnabled") = Bool(FALSE)
    /\ Get(resolved, "trustProxyIps") = Str("ab")
    /\ Get(resolved, "trustProxyHop") = Num(80, 0)
    /\ Get(resolved, "trustProxyEffective") = Bool(FALSE)

\* C2 as stated: with trustProxyEnabled undefined and trustProxyHop a number,
\* the map runSetupFlow returns has trustProxyEffective equal to that number,
\* whatever trustProxyIps holds.
C2_HopOutranksIps ==
    (/\ setupReturned
     /\ Get(resolved, "trustProxyEnabled") = Undef
     /\ TypeOf(Get(resolved, "trustProxyHop")) = "number")
        => Get(resolved, "trustProxyEffective") = Get(resolved, "trustProxyHop")

\* C2 amended: with trustProxyEnabled undefined and trustProxyHop a number,
\* trustProxyEffective is that number only when trustProxyIps is not a
\* non-empty string; a non-empty trustProxyIps is the effective value.
C2_HopUnlessIps ==
    (/\ setupReturned
     /\ Get(resolved, "trustProxyEnabled") = Undef
     /\ TypeOf(Get(resolved, "trustProxyHop")) = "number")
        => /\ "trustProxyEffective" \in Keys(resolved)
           /\ Get(resolved, "trustProxyEffective") =
                IF Get(resolved, "trustProxyIps") \in {Undef, Str("")}
                THEN Get(resolved, "trustProxyHop")
                ELSE Get(resolved, "trustProxyIps")

C2_Witness ==
    /\ setupReturned
    /\ Get(resolved, "trustProxyEnabled") = Undef
    /\ Get(resolved, "trustProxyHop") = Num(80, 0)
    /\ Get(resolved, "trustProxyIps") = Str("ab")
    /\ Get(resolved, "trustProxyEffective") = Str("ab")

\* C3: from the return of runSetupFlow on, trustProxyEffective is the
\* precedence rule applied to the raw values of the same map; no later step
\* writes the map; and the value generateProject reads for app.ts is that
\* effective value.
C3_EffectiveNeverStale ==
    /\ [](setupReturned =>
            /\ "trustProxyEffective" \in Keys(resolved)
            /\ Get(resolved, "trustProxyEffective") = precedenceRule(resolved))
    /\ [](appTrustProxy # <<"unread">> =>
            /\ setupReturned
            /\ appTrustProxy = precedenceRule(resolved))
    /\ [][setupReturned => (setupReturned' /\ resolved' = resolved)]_vars

C3_Witness ==
    /\ pc = "exited"
    /\ out = <<"created">>
    /\ Get(resolved, "trustProxyIps") = Str("ab")
    /\ Get(resolved, "trustProxyHop") = Num(80, 0)
    /\ appTrustProxy = Str("ab")

allKeys ==
    {"port", "host", "socket", "prefix", "logLevel", "prettyLogs", "debug", "debugPort",
     "debugHost", "watch", "ignoreWatch", "verboseWatch", "pluginTimeout", "bodyLimit",
     "closeGraceDelay", "trustProxyEnabled", "trustProxyIps", "trustProxyHop"}

\* The declared default of every option, as the schema's table gives it.
declaredDefault(k) ==
    CASE k = "port" -> Num(3000, 0)
      [] k = "logLevel" -> Str("fatal")
      [] k \in {"prettyLogs", "debug", "watch", "verboseWatch"} -> Bool(FALSE)
      [] k = "debugPort" -> Num(9320, 0)
      [] k = "ignoreWatch" -> Str("node_modules build dist .git bower_components logs .swp")
      [] k = "pluginTimeout" -> Num(10000, 0)
      [] k = "closeGraceDelay" -> Num(500, 0)
      [] OTHER -> Undef

allDefaultsMap ==
    [k \in allKeys \cup {"trustProxyEffective"} |->
        IF k = "trustProxyEffective" THEN Undef ELSE declaredDefault(k)]

\* a map as the function from its keys to their values
asFunction(r) == [k \in Keys(r) |-> Get(r, k)]

choseDefaultSetup == lastChoice = <<modeChoices, Str("Default setup (quick start)")>>

\* C4: once "Default setup" is the answer to the mode question, runSetupFlow
\* has returned having asked that one question only; in a run that returned
\* after the mode question alone every option key holds its declared default,
\* the resolver has run exactly once, and trustProxyEffective was written
\* after all eighteen raw keys (it is the last property of the map).
C4_DefaultSetup ==
    /\ choseDefaultSetup =>
        /\ setupReturned
        /\ pc = "wizMenu"
        /\ setupAsked = <<<<"mode">>>>
    /\ (setupReturned /\ Len(setupAsked) = 1) =>
        /\ asFunction(resolved) = allDefaultsMap
        /\ resolverRuns = 1
        /\ Len(resolved) = 19
        /\ KeyOrder(resolved)[19] = "trustProxyEffective"

C4_Witness ==
    /\ choseDefaultSetup
    /\ setupReturned
    /\ Get(resolved, "port") = Num(3000, 0)

guidedAllSkipped ==
    /\ setupReturned
    /\ Len(setupAsked) > 1
    /\ \A i \in 1..Len(setupAsked) : setupAsked[i][1] # "option"

\* C5: Guided setup with Skip for every category returns the map Default
\* setup returns: the same keys, every option at its declared default,
\* trustProxyEffective included and written after the raw keys.
C5_AllSkipEqualsDefault ==
    guidedAllSkipped =>
        /\ asFunction(resolved) = asFunction(buildAllDefaults)
        /\ asFunction(resolved) = allDefaultsMap
        /\ Get(resolved, "trustProxyEffective") = precedenceRule(resolved)
        /\ KeyOrder(resolved)[Len(resolved)] = "trustProxyEffective"

C5_Witness ==
    /\ guidedAllSkipped
    /\ Len(setupAsked) = 7
    /\ Get(resolved, "ignoreWatch") = Str(DEFAULT_IGNORE_WATCH)

\* C6: when runSetupFlow has returned, the keys of its map are exactly the
\* eighteen declared option keys and trustProxyEffective.
C6_ExactKeySet ==
    setupReturned =>
        /\ Keys(resolved) = allKeys \cup {"trustProxyEffective"}
        /\ allKeys = UNION {{categories[c].options[i].key :
                                i \in 1..Len(categories[c].options)} :
                             c \in 1..Len(categories)}
        /\ Len(resolved) = 19

C6_Witness ==
    /\ setupReturned
    /\ NConfigured(setupAsked) = 1
    /\ Get(resolved, "trustProxyEnabled") = Bool(TRUE)

declaredOrder == <<
    <<"network", <<"port", "host", "socket", "prefix">>>>,
    <<"logging", <<"logLevel", "prettyLogs">>>>,
    <<"debug", <<"debug", "debugPort", "debugHost">>>>,
    <<"watch", <<"watch", "ignoreWatch", "verboseWatch">>>>,
    <<"safety", <<"pluginTimeout", "bodyLimit", "closeGraceDelay">>>>,
    <<"trustProxy", <<"trustProxyEnabled", "trustProxyIps", "trustProxyHop">>>> >>

\* the questions of a Guided setup that configures exactly the categories in S
RECURSIVE guidedQuestionsFrom(_, _)
guidedQuestionsFrom(c, S) ==
    IF c > Len(declaredOrder) THEN <<>>
    ELSE <<<<"category", declaredOrder[c][1]>>>>
         \o (IF c \in S
             THEN [i \in 1..Len(declaredOrder[c][2]) |-> <<"option", declaredOrder[c][2][i]>>]
             ELSE <<>>)
         \o guidedQuestionsFrom(c + 1, S)

guidedQuestions(S) == <<<<"mode">>>> \o guidedQuestionsFrom(1, S)

isPrefix(a, b) == Len(a) <= Len(b) /\ SubSeq(b, 1, Len(a)) = a

\* the keys of the categories before c and of the first i options of c
keysBefore(c, i) ==
    UNION {{declaredOrder[d][2][j] : j \in 1..Len(declaredOrder[d][2])} : d \in 1..(c - 1)}
        \cup {declaredOrder[c][2][j] : j \in 1..i}

\* C7: the questions of runSetupFlow follow the declaration order: the mode
\* question, then each of the six categories once, each configured category
\* followed by its options once each in order; when a category question is
\* pending every key of the earlier categories is already in the map, and
\* when an option question is pending so is every earlier option's key.
C7_DeclarationOrder ==
    /\ \E S \in SUBSET (1..Len(declaredOrder)) :
            /\ isPrefix(setupAsked, guidedQuestions(S))
            /\ (setupReturned /\ Len(setupAsked) > 1) => setupAsked = guidedQuestions(S)
    /\ pc = "category" =>
            /\ setupAsked[Len(setupAsked)] = <<"category", declaredOrder[catIdx][1]>>
            /\ Keys(resolved) = keysBefore(catIdx, 0)
    /\ pc = "option" =>
            /\ setupAsked[Len(setupAsked)] = <<"option", declaredOrder[catIdx][2][optIdx]>>
            /\ Keys(resolved) = keysBefore(catIdx, optIdx - 1)

C7_Witness ==
    /\ setupReturned
    /\ setupAsked = guidedQuestions({1})
    /\ Len(setupAsked) = 11

\* C8 as stated: the value askChoice returns is one of the strings of the
\* list it was given.
C8_ChoiceReturnsListedOption ==
    lastChoice # <<>> =>
        \E i \in 1..Len(lastChoice[1]) : lastChoice[2] = Str(lastChoice[1][i])

\* C9 as stated: no line typed at a prompt ends the run with a non-zero
\* exit; a non-zero exit happens only before the first question.
C9_NoInputAborts ==
    exitCode = 1 => setupAsked = <<>>

answeredEmpty == lastInput # <<>> /\ Trim(lastInput[2]) = ""

\* C10 as stated: an empty line for a configured number or string option
\* resolves the option to undefined, whatever its declared default.
C10_EmptyInputUndefined ==
    answeredEmpty => Get(resolved, lastInput[1]) = Undef

\* C10 amended: an empty line for a configured number or string option
\* resolves the option to its declared default, which is undefined only for
\* the options declared without one.
C10_EmptyInputDefault ==
    answeredEmpty =>
        /\ lastInput[1] \in Keys(resolved)
        /\ Get(resolved, lastInput[1]) = declaredDefault(lastInput[1])

C10_Witness ==
    /\ lastInput = <<"port", "">>
    /\ Get(resolved, "port") = Num(3000, 0)

-----------------------------------------------------------------------------
(* The claims about the plugin scaffold wizard. *)

LowerCaseLetters ==
    {"a", "b", "c", "d", "e", "f", "g", "h", "i", "j", "k", "l", "m", "n", "o", "p", "q",
     "r", "s", "t", "u", "v", "w", "x", "y", "z"}
DecimalDigits == {"0", "1", "2", "3", "4", "5", "6", "7", "8", "9"}

\* The name pattern of the specification, ^[a-z][a-z0-9-]*$, on a string.
matchesNamePattern(name) ==
    /\ name # ""
    /\ Head(Chars(name)) \in LowerCaseLetters
    /\ \A i \in DOMAIN Tail(Chars(name)) :
            Tail(Chars(name))[i] \in LowerCaseLetters \cup DecimalDigits \cup {"-"}

\* the question that is pending while askPluginName(rl, label) has not returned
questionOf(label) ==
    CASE label = "Plugin name" -> "wizPluginName"
      [] label = "Child plugin name" -> "wizChildName"
      [] label = "Route name" -> "wizRouteName"
      [] label = "Hook name" -> "wizHookName"

\* C11: the name check of the plugin, child plugin, route and hook questions
\* accepts a line exactly when the line, trimmed, matches ^[a-z][a-z0-9-]*$: it
\* accepts "my-plugin1" and rejects "My-Plugin", "1plugin" and the empty line;
\* an accepted line yields the trimmed name, and every rejected line is
\* followed by the warning and the same question again.
C11_NameCheck ==
    lastName # <<>> =>
        /\ lastName[4] <=> matchesNamePattern(Trim(lastName[2]))
        /\ lastName[2] = "my-plugin1" => lastName[4]
        /\ lastName[2] \in {"My-Plugin", "1plugin", "", " "} => ~lastName[4]
        /\ lastName[4] => lastName[3] = Trim(lastName[2])
        /\ ~lastName[4] => /\ out = <<"warn:name">>
                           /\ pc = questionOf(lastName[1])

C11_Witness ==
    /\ lastName = <<"Child plugin name", "1plugin", "1plugin", FALSE>>
    /\ pc = "wizChildName"
    /\ pluginName = Str("billing")
    /\ routeNames = <<"users">>

noDuplicates(names) == \A i, j \in 1..Len(names) : names[i] = names[j] => i = j

\* the invariant of one PluginScaffold
scaffoldWellFormed(scaffold) ==
    /\ matchesNamePattern(scaffold.pluginName)
    /\ noDuplicates(scaffold.routeNames)
    /\ noDuplicates(scaffold.hookNames)
    /\ \A i \in 1..Len(scaffold.routeNames) : matchesNamePattern(scaffold.routeNames[i])
    /\ \A i \in 1..Len(scaffold.hookNames) : matchesNamePattern(scaffold.hookNames[i])
    /\ scaffold.childPluginName # Undef =>
            /\ TypeOf(scaffold.childPluginName) = "string"
            /\ matchesNamePattern(scaffold.childPluginName[2])
            /\ scaffold.childPluginName[2] # scaffold.pluginName

wizardReturned == pc \in {"confirm", "exited"}

\* C12: every scaffold of the list runPluginScaffoldWizard builds and returns
\* has a plugin name matching the pattern, no duplicate in routeNames, no
\* duplicate in hookNames, only route, hook and child names matching the
\* pattern, and a child name, when set, different from the plugin name.
C12_ScaffoldsWellFormed ==
    \A k \in 1..Len(pluginScaffolds) : scaffoldWellFormed(pluginScaffolds[k])

C12_Witness ==
    /\ wizardReturned
    /\ Len(pluginScaffolds) = 2
    /\ pluginScaffolds[1].childPluginName = Str("my-plugin1")
    /\ pluginScaffolds[1].routeNames = <<"users", "invoices">>
    /\ pluginScaffolds[2].hookNames = <<"audit">>

routeAnswered == lastName # <<>> /\ lastName[1] = "Route name" /\ lastName[4]
hookAnswered == lastName # <<>> /\ lastName[1] = "Hook name" /\ lastName[4]

\* C13: a route (hook) name that is already in the list of the scaffold under
\* construction leaves that list unchanged and is answered with a warning; a
\* name that is not in that list is appended to it, whatever the lists of the
\* scaffolds finished before hold; so no list ever holds a name twice.
C13_DuplicateNameIgnored ==
    /\ [][routeAnswered' =>
            IF includes(routeNames, lastName'[3])
            THEN routeNames' = routeNames /\ out' = <<"warn:routeExists">>
            ELSE routeNames' = Append(routeNames, lastName'[3]) /\ out' = <<"added:route">>]_vars
    /\ [][hookAnswered' =>
            IF includes(hookNames, lastName'[3])
            THEN hookNames' = hookNames /\ out' = <<"warn:hookExists">>
            ELSE hookNames' = Append(hookNames, lastName'[3]) /\ out' = <<"added:hook">>]_vars
    /\ [](noDuplicates(routeNames) /\ noDuplicates(hookNames))

C13_Witness ==
    /\ routeAnswered
    /\ lastName[3] = "users"
    /\ out = <<"warn:routeExists">>
    /\ routeNames = <<"users">>
    /\ Len(pluginScaffolds) = 1
    /\ pluginScaffolds[1].routeNames = <<"users">>

-----------------------------------------------------------------------------
(* The claims about the plugin files. *)

Range(seq) == {seq[i] : i \in 1..Len(seq)}

\* The relative paths the specification gives the files of one scaffold.
expectedPluginPaths(scaffold) ==
    LET root == <<"plugins", scaffold.pluginName>>
    IN  {<<root, "index", ".ts">>}
        \cup {<<root \o <<"routes", r>>, "index", ".ts">> : r \in Range(scaffold.routeNames)}
        \cup {<<root \o <<"hooks">>, h, ".ts">> : h \in Range(scaffold.hookNames)}
        \cup (IF scaffold.hasDecorator THEN {<<root, "decorator", ".ts">>} ELSE {})
        \cup (IF scaffold.childPluginName # Undef
              THEN {<<root \o <<"plugins">>, scaffold.childPluginName[2], ".ts">>} ELSE {})

expectedPluginFileCount(scaffold) ==
    1 + Len(scaffold.routeNames) + Len(scaffold.hookNames)
      + (IF scaffold.hasDecorator THEN 1 ELSE 0)
      + (IF scaffold.childPluginName # Undef THEN 1 ELSE 0)

\* the paths of the plugin files a completed generation wrote, after the base files
writtenPluginPaths ==
    {written[i][1] : i \in (Len(baseGeneratedFilePaths) + 1)..Len(written)}

\* C14: for every scaffold of the wizard, buildPluginFiles yields exactly the
\* paths plugins/<pluginName>/index, routes/<r>/index per route, hooks/<h> per
\* hook, decorator iff hasDecorator and plugins/<child> iff a child is set, each
\* once, so 1 + |routes| + |hooks| + decorator + child files; a completed
\* generation has written exactly these paths for its scaffolds.
C14_PluginFilePaths ==
    /\ \A k \in 1..Len(pluginScaffolds) :
        LET files == buildPluginFiles(pluginScaffolds[k])
        IN  /\ {files[i].relativePath : i \in 1..Len(files)}
                    = expectedPluginPaths(pluginScaffolds[k])
            /\ Len(files) = expectedPluginFileCount(pluginScaffolds[k])
            /\ Cardinality(expectedPluginPaths(pluginScaffolds[k])) = Len(files)
    /\ out = <<"created">> =>
        /\ writtenPluginPaths
                = UNION {expectedPluginPaths(pluginScaffolds[k]) : k \in 1..Len(pluginScaffolds)}
        /\ Len(written) = Len(baseGeneratedFilePaths)
                + Cardinality(writtenPluginPaths)

C14_Witness ==
    /\ out = <<"created">>
    /\ Len(pluginScaffolds) = 1
    /\ pluginScaffolds[1].pluginName = "billing"
    /\ pluginScaffolds[1].routeNames = <<"invoices">>
    /\ pluginScaffolds[1].hookNames = <<"audit">>
    /\ pluginScaffolds[1].hasDecorator
    /\ pluginScaffolds[1].childPluginName = Undef
    /\ Cardinality(writtenPluginPaths) = 4
    /\ writtenPluginPaths =
        {<<<<"plugins", "billing">>, "index", ".ts">>,
         <<<<"plugins", "billing", "routes", "invoices">>, "index", ".ts">>,
         <<<<"plugins", "billing", "hooks">>, "audit", ".ts">>,
         <<<<"plugins", "billing">>, "decorator", ".ts">>}

scaffoldIsBare(scaffold) ==
    /\ scaffold.routeNames = <<>>
    /\ scaffold.hookNames = <<>>
    /\ ~scaffold.hasDecorator
    /\ scaffold.childPluginName = Undef

hasReturnLine(content) == <<"  return">> \in Range(content.lines)

\* the index files a completed generation wrote for the plugin named name
writtenIndexesOf(name) ==
    {i \in 1..Len(written) : written[i][1] = <<<<"plugins", name>>, "index", ".ts">>}

\* C15: a scaffold without route, hook, decorator and child yields one file,
\* its index, whose body holds the bare return line; the index of a scaffold
\* with a route, a hook, a decorator or a child does not hold that line; and
\* the index a completed generation wrote for a scaffold is of that kind.
C15_BareIndexIsNoOp ==
    /\ \A k \in 1..Len(pluginScaffolds) :
        LET files == buildPluginFiles(pluginScaffolds[k])
        IN  /\ files[1].content.kind = "index"
            /\ \A i \in 2..Len(files) : files[i].content.kind # "index"
            /\ scaffoldIsBare(pluginScaffolds[k]) => Len(files) = 1
            /\ hasReturnLine(files[1].content) <=> scaffoldIsBare(pluginScaffolds[k])
    /\ out = <<"created">> =>
        \A k \in 1..Len(pluginScaffolds) :
            /\ Cardinality(writtenIndexesOf(pluginScaffolds[k].pluginName)) = 1
            /\ \A i \in writtenIndexesOf(pluginScaffolds[k].pluginName) :
                    hasReturnLine(written[i][2]) <=> scaffoldIsBare(pluginScaffolds[k])

C15_Witness ==
    /\ out = <<"created">>
    /\ Len(pluginScaffolds) = 1
    /\ scaffoldIsBare(pluginScaffolds[1])
    /\ Len(written) = Len(baseGeneratedFilePaths) + 1
    /\ hasReturnLine(written[Len(written)][2])

-----------------------------------------------------------------------------
(* The claims about the generation and the end of the run. *)

\* the manifest generateProject checks: the base paths, then the scaffold paths
manifest ==
    LET customPluginFiles == buildCustomPluginFiles(pluginScaffolds)
    IN  baseGeneratedFilePaths
        \o [i \in 1..Len(customPluginFiles) |-> customPluginFiles[i].relativePath]

\* the last step was the answer to the confirmation and it was not Cancel:
\* main() called generateProject
generationStarted ==
    /\ pc = "exited"
    /\ lastChoice # <<>>
    /\ lastChoice[1] = confirmChoices
    /\ lastChoice[2] # Str("Cancel")

generationCompleted == out = <<"created">>

underPluginSubtree(file) == Len(file[1]) >= 2 /\ file[1][1] = "plugins"

\* C16: after a completed generation the files under the target are exactly
\* the manifest: the thirteen base paths and the paths of every scaffold; with
\* no scaffold they are the thirteen base files, none under plugins/<name>/.
C16_FilesEqualManifest ==
    generationCompleted =>
        /\ generationStarted
        /\ fsFiles = Range(manifest)
        /\ fsFiles = Range(baseGeneratedFilePaths)
                \cup UNION {expectedPluginPaths(pluginScaffolds[k]) :
                                k \in 1..Len(pluginScaffolds)}
        /\ Cardinality(Range(baseGeneratedFilePaths)) = 13
        /\ pluginScaffolds = <<>> =>
                /\ Cardinality(fsFiles) = 13
                /\ \A file \in fsFiles : ~underPluginSubtree(file)

C16_Witness ==
    /\ generationCompleted
    /\ pluginScaffolds = <<>>
    /\ Cardinality(fsFiles) = 13
    /\ Len(written) = 13
    /\ setupAsked = <<<<"mode">>>>

duplicateMessage == "Duplicate generated file detected"

\* C17: no path is written twice in a run; when the manifest holds a path
\* twice and generateProject has created the target directory, the run ends
\* fatally with the message naming a path that is twice in the manifest, and
\* no file has been written.
C17_NoPathWrittenTwice ==
    /\ noDuplicates([i \in 1..Len(written) |-> written[i][1]])
    /\ (generationStarted /\ ~noDuplicates(manifest)) =>
            /\ exitCode = 1
            /\ errLines = 1
            /\ written = <<>>
            /\ <<"plugins">> \in fsDirs =>
                    /\ errMessage[1] = duplicateMessage
                    /\ \E i, j \in 1..Len(manifest) :
                            i < j /\ manifest[i] = errMessage[2] /\ manifest[j] = errMessage[2]

C17_Witness ==
    /\ generationStarted
    /\ Len(pluginScaffolds) = 2
    /\ pluginScaffolds[1].pluginName = "billing"
    /\ pluginScaffolds[2].pluginName = "billing"
    /\ errMessage = <<duplicateMessage, <<<<"plugins", "billing">>, "index", ".ts">>>>
    /\ written = <<>>
    /\ exitCode = 1

\* a step in which main() calls generateProject
callsGenerateProject ==
    /\ pc = "confirm"
    /\ pc' = "exited"
    /\ lastChoice'[2] # Str("Cancel")

\* C18: when the target directory exists as generateProject starts (another
\* process created it after validateNewProjectTarget passed), the run ends
\* fatally with one error line and nothing inside the target is created,
\* written or changed.
C18_ExistingTargetUntouched ==
    [][(callsGenerateProject /\ <<>> \in fsDirs) =>
            /\ exitCode' = 1
            /\ errLines' = errLines + 1
            /\ out' # <<"created">>
            /\ fsDirs' = fsDirs
            /\ fsFiles' = fsFiles
            /\ written' = written]_vars

C18_Witness ==
    /\ generationStarted
    /\ exitCode = 1
    /\ errMessage = <<"EEXIST: file already exists, mkdir">>
    /\ fsDirs = {<<>>}
    /\ fsFiles = {File(<<>>, "package", ".json")}
    /\ written = <<>>
    /\ Len(pluginScaffolds) = 1

\* C19 as stated: Cancel ends the run without a fatal error and without
\* creating a directory or a file, and the program creates a directory or a
\* file only in the step in which the operator has chosen Generate.
C19_NothingBeforeGenerate ==
    /\ [][lastChoice' = <<confirmChoices, Str("Cancel")>> =>
            /\ exitCode' = 0
            /\ errLines' = 0
            /\ fsDirs' = fsDirs
            /\ fsFiles' = fsFiles
            /\ written' = written]_vars
    /\ [][(pc' # pc /\ (fsDirs' # fsDirs \/ fsFiles' # fsFiles \/ written' # written)) =>
            lastChoice' = <<confirmChoices, Str("Generate")>>]_vars

helpRequested == args = <<>> \/ \E i \in 1..Len(args) : args[i] \in {"--help", "-h"}

\* C20: a run that meets a fatal condition (target ".", target existing at
\* validation or at generation, a repeated manifest path, a failing file
\* system call) ends with exit status 1 after exactly one error line and
\* without the success message; the success message is printed only by a run
\* that ends with status 0 after writing the whole manifest; status 0 is the
\* end of a completed generation, of a Cancel, or of the help output only.
C20_FatalExitsOnce ==
    /\ [](exitCode = 1 => (pc = "exited" /\ errLines = 1 /\ errMessage # <<>>
                           /\ out # <<"created">>))
    /\ [](errLines > 0 => exitCode = 1)
    /\ [](generationCompleted =>
            /\ exitCode = 0
            /\ pc = "exited"
            /\ Range(manifest) \subseteq fsFiles
            /\ Len(written) = Len(manifest))
    /\ [](exitCode = 0 =>
            /\ errLines = 0
            /\ \/ generationCompleted /\ generationStarted
               \/ out = <<"cancelled">> /\ lastChoice = <<confirmChoices, Str("Cancel")>>
               \/ out = <<"help">> /\ helpRequested /\ setupAsked = <<>>)
    /\ [](generationStarted =>
            \/ exitCode = 0 /\ generationCompleted
            \/ exitCode = 1 /\ ~generationCompleted)
    /\ [][(pc = "validate" /\ pc' # pc /\ (targetDir = "." \/ <<>> \in fsDirs)) =>
            exitCode' = 1]_vars
    /\ [][(callsGenerateProject /\ (<<>> \in fsDirs \/ ~noDuplicates(manifest))) =>
            exitCode' = 1]_vars
    /\ [][(callsGenerateProject /\ Len(written') < Len(manifest)) => exitCode' = 1]_vars

C20_Witness ==
    /\ generationStarted
    /\ exitCode = 1
    /\ errLines = 1
    /\ errMessage = <<"ENOSPC: no space left on device, write">>
    /\ Len(pluginScaffolds) = 1
    /\ Len(written) = 13
    /\ Len(manifest) = 15

-----------------------------------------------------------------------------
(* C21 *)

\* no rl.question call has been made: main() is before its first prompt or has exited
noQuestionAsked ==
    /\ pc \in {"main", "validate", "exited"}
    /\ setupAsked = <<>>
    /\ lastChoice = <<>>
    /\ lastName = <<>>
    /\ lastInput = <<>>

rejectedByValidation ==
    /\ pc = "exited"
    /\ exitCode = 1
    /\ errLines = 1
    /\ errMessage \in {<<"Current directory generation is disabled in MVP">>,
                       <<"Target directory already exists">>}

\* C21: in a run whose target is "." or exists when the program starts, no
\* setup or wizard question is ever asked, and when main() reaches
\* validateNewProjectTarget with such a target that call ends the run with
\* its error.
C21_RejectedBeforeFirstPrompt ==
    /\ (args # <<>> /\ (args[1] = "." \/ <<>> \in fsDirs)) => []noQuestionAsked
    /\ [][(pc = "validate" /\ (targetDir = "." \/ <<>> \in fsDirs)) =>
            (rejectedByValidation' /\ noQuestionAsked')]_vars

C21_Witness ==
    /\ rejectedByValidation
    /\ noQuestionAsked
    /\ args = <<"demo">>
    /\ errMessage = <<"Target directory already exists">>
    /\ fsFiles = {}

-----------------------------------------------------------------------------
(* C22 *)

abortedOnCollision ==
    /\ generationStarted
    /\ errMessage # <<>>
    /\ errMessage[1] = duplicateMessage

\* C22: when generateProject aborts on a path that is twice in the manifest,
\* no file has been written, and the target directory and its six fixed
\* subdirectories exist and stay: they were created before the collision
\* check, and nothing removes them.  A manifest with a repeated path makes
\* generateProject abort in this way whenever its first mkdirSync succeeds.
C22_DirectoriesLeftAfterCollision ==
    /\ [](abortedOnCollision =>
            /\ ~noDuplicates(manifest)
            /\ exitCode = 1
            /\ fsFiles = {}
            /\ written = <<>>
            /\ fsDirs = {<<>>} \cup baseDirs
            /\ baseDirs = {<<"plugins">>, <<"routes">>, <<"routes", "root">>, <<"test">>,
                           <<"test", "plugins">>, <<"test", "routes">>})
    /\ [][(callsGenerateProject /\ ~noDuplicates(manifest) /\ <<>> \notin fsDirs) =>
            \/ abortedOnCollision'
            \/ errMessage' = <<"EACCES: permission denied, mkdir">> /\ fsDirs' = fsDirs]_vars
    /\ [][abortedOnCollision => UNCHANGED vars]_vars

C22_Witness ==
    /\ abortedOnCollision
    /\ Cardinality(fsDirs) = 7
    /\ fsFiles = {}
    /\ Len(pluginScaffolds) = 2
    /\ pluginScaffolds[1].routeNames = <<"users">>
    /\ pluginScaffolds[2].routeNames = <<>>

-----------------------------------------------------------------------------
(* C23 *)

\* two scaffolds of the list have the same pluginName
sharedPluginName(scaffolds) ==
    \E i, j \in 1..Len(scaffolds) :
        i < j /\ scaffolds[i].pluginName = scaffolds[j].pluginName

pathsOf(files) == [i \in 1..Len(files) |-> files[i].relativePath]

\* the step appends a scaffold whose name an earlier scaffold has
appendsSharedName ==
    /\ Len(pluginScaffolds') = Len(pluginScaffolds) + 1
    /\ \E i \in 1..Len(pluginScaffolds) :
            pluginScaffolds[i].pluginName = pluginScaffolds'[Len(pluginScaffolds')].pluginName

\* the step accepts a plugin name that a finished scaffold has
acceptsSharedName ==
    /\ pluginName = Undef
    /\ pluginName' # Undef
    /\ \E i \in 1..Len(pluginScaffolds) : pluginScaffolds[i].pluginName = pluginName'[2]

noWarning(o) == \A i \in 1..Len(o) : o[i] \in {"added:route", "added:decorator"}

\* C23: the manifest of the wizard's scaffolds holds a path twice exactly when
\* two scaffolds have the same pluginName; no plugin path is a base path and
\* the paths of one scaffold are pairwise different; the wizard accepts a
\* plugin name that an earlier scaffold has, and appends the scaffold, without
\* a warning; and generateProject called with such a pair ends the run with
\* the duplicate-path error (when its first mkdirSync succeeds).
C23_DuplicateIffSharedName ==
    /\ [](~noDuplicates(manifest) <=> sharedPluginName(pluginScaffolds))
    /\ [](\A k \in 1..Len(pluginScaffolds) :
            LET paths == pathsOf(buildPluginFiles(pluginScaffolds[k]))
            IN  /\ noDuplicates(paths)
                /\ Range(paths) \cap Range(baseGeneratedFilePaths) = {})
    /\ [][acceptsSharedName => (noWarning(out') /\ lastName'[4])]_vars
    /\ [][appendsSharedName => (out' = <<>> /\ pc' = "wizAnother")]_vars
    /\ [][(callsGenerateProject /\ sharedPluginName(pluginScaffolds)) =>
            /\ exitCode' = 1
            /\ written' = <<>>
            /\ <<>> \notin fsDirs =>
                    \/ abortedOnCollision'
                    \/ errMessage' = <<"EACCES: permission denied, mkdir">>]_vars

C23_Witness ==
    /\ abortedOnCollision
    /\ Len(pluginScaffolds) = 2
    /\ pluginScaffolds[1].pluginName = "sensible"
    /\ pluginScaffolds[2].pluginName = "sensible"
    /\ pluginScaffolds[1].hasDecorator
    /\ errMessage[2] = File(<<"plugins", "sensible">>, "index", ".ts")

\* two scaffolds with different names, one of them named like a base plugin
\* file, are generated without a collision
C23_WitnessDistinct ==
    /\ generationCompleted
    /\ Len(pluginScaffolds) = 2
    /\ pluginScaffolds[1].pluginName = "sensible"
    /\ pluginScaffolds[2].pluginName = "billing"

-----------------------------------------------------------------------------
(* C24 *)

\* runPluginScaffoldWizard is suspended on one of its questions
wizardSuspended ==
    pc \in {"wizMenu", "wizPluginName", "wizChildName", "wizRouteName", "wizHookName",
            "wizAnother"}

\* C24 as stated: at every question of the wizard the scaffold under
\* construction is consistent: its route and hook names are valid and not
\* repeated, its names match the pattern, and its childPluginName is not its
\* pluginName, also while the child-name question is asked again.
C24_ConsistentAtSuspension ==
    wizardSuspended =>
        /\ noDuplicates(routeNames)
        /\ noDuplicates(hookNames)
        /\ Truthy(pluginName) => matchesNamePattern(pluginName[2])
        /\ Truthy(childPluginName) =>
                /\ matchesNamePattern(childPluginName[2])
                /\ childPluginName # pluginName

-----------------------------------------------------------------------------
(* C25 *)

\* the step is the menu answer `choice`
selects(choice) ==
    /\ pc = "wizMenu"
    /\ lastChoice' = <<pluginMenuChoices, Str(choice)>>

filesOfKind(files, kind) == {i \in 1..Len(files) : files[i].content.kind = kind}

\* C25: Decorator selected with hasDecorator true, and Child plugin selected
\* with a child name set, write their warning, lead back to the menu without a
\* name question and change no variable of the scaffold under construction
\* nor the result list; a decorator flag or child name the menu shows as set
\* stays as it is until the scaffold is finished; every scaffold yields at
\* most one decorator file and at most one child plugin file.
C25_ReselectionIgnored ==
    /\ [][(selects("Decorator") /\ hasDecorator) =>
            /\ out' = <<"warn:decoratorSelected">>
            /\ pc' = "wizMenu"
            /\ UNCHANGED scaffoldVars]_vars
    /\ [][(selects("Child plugin") /\ Truthy(childPluginName)) =>
            /\ out' = <<"warn:childSelected">>
            /\ pc' = "wizMenu"
            /\ UNCHANGED scaffoldVars]_vars
    /\ [][(pc \in {"wizMenu", "wizPluginName", "wizRouteName", "wizHookName"}
            /\ Truthy(childPluginName)) => childPluginName' = childPluginName]_vars
    /\ [][(pc \in {"wizMenu", "wizPluginName", "wizChildName", "wizRouteName", "wizHookName"}
            /\ hasDecorator) => hasDecorator']_vars
    /\ [](\A k \in 1..Len(pluginScaffolds) :
            LET files == buildPluginFiles(pluginScaffolds[k])
            IN  /\ Cardinality(filesOfKind(files, "decorator")) <= 1
                /\ Cardinality(filesOfKind(files, "child")) <= 1)

C25_Witness ==
    /\ pc = "wizMenu"
    /\ out = <<"warn:childSelected">>
    /\ lastChoice = <<pluginMenuChoices, Str("Child plugin")>>
    /\ childPluginName = Str("my-plugin1")
    /\ hasDecorator
    /\ pluginName = Str("billing")

C25_WitnessDecorator ==
    /\ pc = "wizMenu"
    /\ out = <<"warn:decoratorSelected">>
    /\ lastChoice = <<pluginMenuChoices, Str("Decorator")>>
    /\ hasDecorator
    /\ childPluginName = Undef

-----------------------------------------------------------------------------
(* C26 *)

\* the step is an accepted answer to the wizard's menu
menuAnswered == pc = "wizMenu" /\ lastChoice' # <<>> /\ lastChoice'[1] = pluginMenuChoices

\* the step makes the call askPluginName(rl, 'Plugin name')
asksPluginName == pc # "wizPluginName" /\ pc' = "wizPluginName"

\* the own action of a selection, taken in the step
ownAction(sel) ==
    /\ sel = Str("Route") => pc' = "wizRouteName"
    /\ sel = Str("Hook") => pc' = "wizHookName"
    /\ sel = Str("Child plugin") => pc' = "wizChildName"
    /\ sel = Str("Decorator") => (hasDecorator' /\ out' = <<"added:decorator">> /\ pc' = "wizMenu")

\* C26: askPluginName(rl, 'Plugin name') is called in the step of a menu
\* answer other than Done given while the scaffold has no name, and in no
\* other step: not on Done, not once the name is set.  The selection's own
\* action has not happened when the name is asked; it happens in the step
\* that accepts the name.  The name then stays until the scaffold is finished,
\* so every scaffold has its name asked once.
C26_PluginNameAskedOnce ==
    /\ [][asksPluginName =>
            /\ menuAnswered
            /\ ~Truthy(pluginName)
            /\ lastChoice'[2] # Str("Done")
            /\ selected' = lastChoice'[2]
            /\ UNCHANGED <<pluginScaffolds, pluginName, routeNames, hookNames, hasDecorator,
                           childPluginName>>]_vars
    /\ [][(menuAnswered /\ ~Truthy(pluginName) /\ lastChoice'[2] # Str("Done")) =>
            asksPluginName]_vars
    /\ [][(menuAnswered /\ lastChoice'[2] = Str("Done")) =>
            (pc' \in {"confirm", "wizAnother"} /\ lastName' = <<>>)]_vars
    /\ [][(menuAnswered /\ Truthy(pluginName)) => ~asksPluginName]_vars
    /\ [][(pc = "wizPluginName" /\ pc' # pc) =>
            /\ lastName'[1] = "Plugin name"
            /\ lastName'[4]
            /\ pluginName' = Str(lastName'[3])
            /\ ownAction(selected)]_vars
    /\ [][(Truthy(pluginName) /\ pc # "wizAnother") => pluginName' = pluginName]_vars
    /\ [](pc \in {"wizChildName", "wizRouteName", "wizHookName", "wizAnother"} =>
            Truthy(pluginName))

C26_Witness ==
    /\ pc = "wizRouteName"
    /\ lastName = <<"Plugin name", " billing ", "billing", TRUE>>
    /\ pluginName = Str("billing")
    /\ routeNames = <<>>
    /\ Len(pluginScaffolds) = 1
    /\ pluginScaffolds[1].hasDecorator

-----------------------------------------------------------------------------
(* C27 *)

doneSelected == menuAnswered /\ lastChoice'[2] = Str("Done")

anotherAnswered(choice) ==
    /\ pc = "wizAnother"
    /\ lastChoice' = <<anotherChoices, Str(choice)>>

\* the step in which runPluginScaffoldWizard returns its list to main()
wizardReturns == wizardSuspended /\ ~wizardSuspended'

\* C27: Done chosen while the scaffold has no name makes the wizard return in
\* that step: the list is as it was, "scaffold another?" is not asked, and
\* main() goes on to the summary and the confirmation; the wizard returns in
\* no other step than this one and the answer No to "scaffold another?".
C27_DoneWithoutNameReturns ==
    /\ [][(doneSelected /\ ~Truthy(pluginName)) =>
            /\ pc' = "confirm"
            /\ out' = <<"pluginSummary">>
            /\ pluginScaffolds' = pluginScaffolds]_vars
    /\ [][wizardReturns =>
            /\ pc' = "confirm"
            /\ pluginScaffolds' = pluginScaffolds
            /\ \/ doneSelected /\ ~Truthy(pluginName)
               \/ anotherAnswered("No")]_vars

C27_Witness ==
    /\ pc = "confirm"
    /\ lastChoice = <<pluginMenuChoices, Str("Done")>>
    /\ Len(pluginScaffolds) = 1
    /\ pluginScaffolds[1].childPluginName = Str("my-plugin1")

-----------------------------------------------------------------------------
(* C28 *)

scaffoldUnderConstruction ==
    [pluginName |-> pluginName[2], routeNames |-> routeNames, hookNames |-> hookNames,
     hasDecorator |-> hasDecorator, childPluginName |-> childPluginName, additions |-> <<>>]

freshLocals ==
    /\ pluginName = Undef
    /\ routeNames = <<>>
    /\ hookNames = <<>>
    /\ hasDecorator = FALSE
    /\ childPluginName = Undef

\* C28: the result list changes only in the step of a Done chosen with a name
\* captured, which appends the scaffold under construction at the end and
\* asks "scaffold another?"; so the list holds the scaffolds in the order they
\* were finished, one per such Done.  No appending step follows before that
\* question is answered: Yes starts a new scaffold with the list unchanged,
\* No returns the list.
C28_OneScaffoldPerIteration ==
    /\ [][(doneSelected /\ Truthy(pluginName)) =>
            /\ pluginScaffolds' = Append(pluginScaffolds, scaffoldUnderConstruction)
            /\ pc' = "wizAnother"]_vars
    /\ [][pluginScaffolds' # pluginScaffolds => (doneSelected /\ Truthy(pluginName))]_vars
    /\ [][anotherAnswered("Yes") =>
            /\ pc' = "wizMenu"
            /\ freshLocals'
            /\ pluginScaffolds' = pluginScaffolds]_vars
    /\ [][anotherAnswered("No") =>
            /\ pc' = "confirm"
            /\ pluginScaffolds' = pluginScaffolds]_vars
    /\ [](pc = "wizAnother" => pluginScaffolds # <<>>)

C28_Witness ==
    /\ pc = "confirm"
    /\ lastChoice = <<anotherChoices, Str("No")>>
    /\ Len(pluginScaffolds) = 2
    /\ pluginScaffolds[1].routeNames = <<"invoices">>
    /\ pluginScaffolds[2].hookNames = <<"audit">>
    /\ pluginScaffolds[2].routeNames = <<>>

-----------------------------------------------------------------------------
(* C29 *)

\* the keys the declaration gives category c, and the keys its handling may write
categoryKeys(c) == Range(declaredOrder[c][2])
writableIn(c) ==
    categoryKeys(c) \cup (IF declaredOrder[c][1] = "trustProxy" THEN {"trustProxyEffective"}
                          ELSE {})

\* the keys whose property is new or has another value after the step
changedKeys ==
    {k \in Keys(resolved') : k \notin Keys(resolved) \/ Get(resolved', k) # Get(resolved, k)}

handlingCategory(c) == pc \in {"category", "option"} /\ catIdx = c

skipsCategory(c) ==
    /\ pc = "category"
    /\ catIdx = c
    /\ lastChoice' = <<categoryChoices, Str("Skip this category (use defaults)")>>

\* the step is the answer "80" to the free-text question of `key`
answers80(key) ==
    /\ pc = "option"
    /\ categories[catIdx].options[optIdx].key = key
    /\ lastInput' = <<key, "80">>

\* C29: in Guided setup the steps of a category write keys of that category
\* only (and trustProxyEffective for Trust Proxy, the last category, whose
\* end is followed by the final resolver run); an accepted answer is stored
\* under the key of its own option; skipping a category adds exactly its keys, with
\* their declared defaults; and no step changes or removes a property the map
\* already has, so the values stored for Network, Logging and Debug are in
\* the returned map as they were answered.
C29_CategoryWritesOwnKeys ==
    /\ [][\A c \in 1..Len(declaredOrder) :
            (handlingCategory(c) => changedKeys \subseteq writableIn(c))]_vars
    /\ [][(pc = "option" /\ (setupAsked' # setupAsked \/ setupReturned')) =>
            /\ categories[catIdx].options[optIdx].key \in Keys(resolved')
            /\ changedKeys \ {"trustProxyEffective"}
                    \subseteq {categories[catIdx].options[optIdx].key}]_vars
    /\ [][\A c \in 1..Len(declaredOrder) : skipsCategory(c) =>
            /\ categoryKeys(c) \cap Keys(resolved) = {}
            /\ Keys(resolved') \ {"trustProxyEffective"}
                    = (Keys(resolved) \cup categoryKeys(c)) \ {"trustProxyEffective"}
            /\ \A k \in categoryKeys(c) : (Get(resolved', k) = declaredDefault(k))]_vars
    /\ [][(pc \in {"category", "option"}) => isPrefix(resolved, resolved')]_vars
    /\ [][\A k \in {"port", "debugPort"} : (answers80(k) => Get(resolved', k) = Num(80, 0))]_vars
    /\ [][\A k \in {"host", "debugHost"} : (answers80(k) => Get(resolved', k) = Str("80"))]_vars
    /\ [][(pc = "option" /\ lastChoice' = <<logLevelChoices, Str("warn")>>) =>
            Get(resolved', "logLevel") = Str("warn")]_vars
    /\ [](setupReturned => Keys(resolved) = allKeys \cup {"trustProxyEffective"})

C29_Witness ==
    /\ setupReturned
    /\ Get(resolved, "port") = Num(80, 0)
    /\ Get(resolved, "host") = Str("80")
    /\ Get(resolved, "socket") = Str("80")
    /\ Get(resolved, "prefix") = Str("80")
    /\ Get(resolved, "logLevel") = Str("warn")
    /\ Get(resolved, "prettyLogs") = Bool(TRUE)
    /\ Get(resolved, "debug") = Bool(TRUE)
    /\ Get(resolved, "debugPort") = Num(80, 0)
    /\ Get(resolved, "debugHost") = Str("80")
    /\ \A k \in categoryKeys(4) \cup categoryKeys(5) \cup categoryKeys(6) :
            Get(resolved, k) = declaredDefault(k)
    /\ Get(resolved, "trustProxyEffective") = Undef

-----------------------------------------------------------------------------
(* C30 *)

numberKeys ==
    {"port", "debugPort", "pluginTimeout", "bodyLimit", "closeGraceDelay", "trustProxyHop"}

\* the lines of the model that are not empty after trimming and are no number
nonNumericLines == {"ab", " ab "}

\* the last step wrote "Invalid number, using default/unset."
warnedInvalidNumber == out # <<>> /\ out[1] = "warn:number"

\* the step is the answer `raw` to the question of a number option
answersNumberOption(raw) ==
    /\ pc = "option"
    /\ categories[catIdx].options[optIdx].type = "number"
    /\ lastInput' = <<categories[catIdx].options[optIdx].key, raw>>

\* C30 as stated: after the warning for a number option the option holds its
\* declared default, and that value is not undefined.
C30_FallbackNotUndefined ==
    warnedInvalidNumber =>
        /\ lastInput[1] \in numberKeys
        /\ Get(resolved, lastInput[1]) = declaredDefault(lastInput[1])
        /\ Get(resolved, lastInput[1]) # Undef

\* C30, amended: a line that is not empty and no number, given for a number
\* option, writes the warning and stores the option's declared default, and
\* the flow goes on to the next question without asking again; the stored
\* value is undefined exactly for bodyLimit and trustProxyHop, whose declared
\* default is undefined.  The warning is written in no other step.
C30_FallbackToDeclaredDefault ==
    /\ [][\A raw \in nonNumericLines : (answersNumberOption(raw) =>
            /\ warnedInvalidNumber'
            /\ Get(resolved', lastInput'[1]) = declaredDefault(lastInput'[1])
            /\ setupAsked' # setupAsked \/ setupReturned'
            /\ Len(setupAsked') > Len(setupAsked) =>
                    setupAsked'[Len(setupAsked')] # <<"option", lastInput'[1]>>)]_vars
    /\ [](warnedInvalidNumber =>
            /\ lastInput[1] \in numberKeys
            /\ lastInput[2] \in nonNumericLines
            /\ Get(resolved, lastInput[1]) = declaredDefault(lastInput[1])
            /\ Get(resolved, lastInput[1]) = Undef
                    <=> lastInput[1] \in {"bodyLimit", "trustProxyHop"})
    /\ [](\A k \in numberKeys \ {"bodyLimit", "trustProxyHop"} :
            TypeOf(declaredDefault(k)) = "number")

C30_Witness ==
    /\ warnedInvalidNumber
    /\ lastInput = <<"bodyLimit", "ab">>
    /\ Get(resolved, "bodyLimit") = Undef
    /\ Get(resolved, "pluginTimeout") = Num(10000, 0)
    /\ pc = "option"
    /\ categories[catIdx].options[optIdx].key = "closeGraceDelay"

C30_WitnessPort ==
    /\ warnedInvalidNumber
    /\ lastInput = <<"port", " ab ">>
    /\ Get(resolved, "port") = Num(3000, 0)
    /\ pc = "option"

-----------------------------------------------------------------------------
(* C31 *)

\* the last step was an accepted answer to askOption's menu
optionMenuAnswered ==
    /\ lastChoice # <<>>
    /\ lastChoice[1] \in {booleanChoices, triBooleanChoices, logLevelChoices}

\* the key of the option that step answered: the question before the one
\* that is now pending
answeredOptionKey == setupAsked[Len(setupAsked) - 1][2]

\* C31 as stated: a boolean option is true for Yes and false for No; a
\* tri-boolean option is undefined for Unset, false for False and true for
\* True; a choice option is the chosen string, one of its declared choices.
C31_MenuAnswersMapped ==
    optionMenuAnswered =>
        LET value == Get(resolved, answeredOptionKey)
        IN  /\ lastChoice[1] = booleanChoices =>
                /\ lastChoice[2] = Str("Yes") => value = Bool(TRUE)
                /\ lastChoice[2] = Str("No") => value = Bool(FALSE)
            /\ lastChoice[1] = triBooleanChoices =>
                /\ lastChoice[2] = Str("Unset (default)") => value = Undef
                /\ lastChoice[2] = Str("False") => value = Bool(FALSE)
                /\ lastChoice[2] = Str("True") => value = Bool(TRUE)
            /\ lastChoice[1] = logLevelChoices =>
                /\ value = lastChoice[2]
                /\ \E i \in 1..Len(logLevelChoices) : value = Str(logLevelChoices[i])

-----------------------------------------------------------------------------
(* C32 *)

\* the line without its leading and trailing blanks, for the lines of the model
trimmedLine(raw) ==
    CASE raw \in {"", " "} -> ""
      [] raw \in {"ab", " ab "} -> "ab"
      [] raw = " billing " -> "billing"
      [] OTHER -> raw

\* the text of a declared default, as the "[default: X]" suffix shows it
defaultText(key) ==
    CASE key = "port" -> "3000"
      [] key = "debugPort" -> "9320"
      [] key = "pluginTimeout" -> "10000"
      [] key = "closeGraceDelay" -> "500"
      [] key = "ignoreWatch" -> "node_modules build dist .git bower_components logs .swp"
      [] OTHER -> ""

askInputReturned == pc = "askInputReturned"

\* C32: for a line that is empty after trimming askInput returns the text of
\* the default when the option has one and the empty string when it has
\* none; for every other line it returns the line without its leading and
\* trailing blanks, otherwise unchanged.
C32_AskInputResult ==
    askInputReturned =>
        LET key == lastName[1]
            raw == lastName[2]
            response == lastName[3]
        IN  /\ <<key, raw>> = lastInput
            /\ IF trimmedLine(raw) = ""
               THEN /\ declaredDefault(key) # Undef => (response = defaultText(key) /\ response # "")
                    /\ declaredDefault(key) = Undef => response = ""
               ELSE response = trimmedLine(raw)

C32_Witness ==
    /\ askInputReturned
    /\ lastName = <<"ignoreWatch", " ", DEFAULT_IGNORE_WATCH, TRUE>>

C32_WitnessTrimmed ==
    /\ askInputReturned
    /\ lastName = <<"bodyLimit", " ab ", "ab", TRUE>>

-----------------------------------------------------------------------------
(* C33: the optional values in the generated entry point. *)

appTsWritten == \E i \in 1..Len(written) : written[i][1] = File(<<>>, "app", ".ts")

appTsLines ==
    written[CHOOSE i \in 1..Len(written) : written[i][1] = File(<<>>, "app", ".ts")][2].lines

\* the entries of Fastify({ ... }) after the logger, and those with a given label
fastifyExtras == Tail(appTsLines[1])
extrasLabelled(label) == {i \in 1..Len(fastifyExtras) : fastifyExtras[i][1] = label}

\* a key's entry is there exactly when its value is not undefined, and carries the value
extraIffPresent(label, key) ==
    /\ Cardinality(extrasLabelled(label)) = (IF Get(resolved, key) # Undef THEN 1 ELSE 0)
    /\ \A i \in extrasLabelled(label) : fastifyExtras[i][3] = Get(resolved, key)

prefixIffPresent ==
    appTsLines[2] = (IF Get(resolved, "prefix") # Undef
                     THEN <<"    options: { prefix: '", Get(resolved, "prefix")>>
                     ELSE <<"    options: {}">>)

\* the lines of app.ts that are there for the host, as code or as a comment
hostLines == {i \in 1..Len(appTsLines) :
                appTsLines[i][1] \in {"    host: '", "    // host: undefined,"}}

\* C33 as stated: each of host, prefix, bodyLimit, pluginTimeout, closeGraceDelay
\* and trustProxyEffective has its line or entry in app.ts if and only if it is
\* not undefined, and an undefined value leaves nothing at all, no placeholder.
C33_NothingEmittedWhenUndefined ==
    appTsWritten =>
        /\ extraIffPresent("pluginTimeout: ", "pluginTimeout")
        /\ extraIffPresent("bodyLimit: ", "bodyLimit")
        /\ extraIffPresent("closeGraceDelay: ", "closeGraceDelay")
        /\ extraIffPresent("trustProxy: ", "trustProxyEffective")
        /\ prefixIffPresent
        /\ Get(resolved, "host") # Undef => appTsLines[3] = <<"    host: '", Get(resolved, "host")>>
        /\ Get(resolved, "host") = Undef => hostLines = {}

\* C33 (amended): bodyLimit, pluginTimeout, closeGraceDelay and
\* trustProxyEffective have an entry in Fastify({ ... }) if and only if they are
\* not undefined (a trustProxyEffective of false or of a number included, written
\* without quotes), prefix is in the options line if and only if it is set, and
\* host has its line when set and the comment line "// host: undefined," when not.
C33_OptionalEntries ==
    appTsWritten =>
        /\ extraIffPresent("pluginTimeout: ", "pluginTimeout")
        /\ extraIffPresent("bodyLimit: ", "bodyLimit")
        /\ extraIffPresent("closeGraceDelay: ", "closeGraceDelay")
        /\ extraIffPresent("trustProxy: ", "trustProxyEffective")
        /\ \A i \in extrasLabelled("trustProxy: ") :
                fastifyExtras[i][2] = (TypeOf(Get(resolved, "trustProxyEffective")) = "string")
        /\ prefixIffPresent
        /\ appTsLines[3] = (IF Get(resolved, "host") # Undef
                            THEN <<"    host: '", Get(resolved, "host")>>
                            ELSE <<"    // host: undefined,">>)

\* app.ts written with trustProxy: false, no bodyLimit and the host comment
C33_Witness ==
    /\ appTsWritten
    /\ Get(resolved, "trustProxyEffective") = Bool(FALSE)
    /\ <<"trustProxy: ", FALSE, Bool(FALSE)>> \in Range(fastifyExtras)
    /\ extrasLabelled("bodyLimit: ") = {}
    /\ appTsLines[3] = <<"    // host: undefined,">>

\* app.ts written with a numeric trustProxy
C33_WitnessNumber ==
    /\ appTsWritten
    /\ TypeOf(Get(resolved, "trustProxyEffective")) = "number"
    /\ extrasLabelled("trustProxy: ") # {}

\* app.ts written with a host and with a body limit
C33_WitnessHost == appTsWritten /\ hostLines = {3} /\ Get(resolved, "host") # Undef
C33_WitnessBodyLimit == appTsWritten /\ extrasLabelled("bodyLimit: ") # {}

-----------------------------------------------------------------------------
(* C34: the resolver is idempotent and writes one key. *)

appliesPrecedence == pc \in {"applyTrustProxyPrecedence", "precedenceReturned"} /\ pc' # pc

\* C34: a second application of applyTrustProxyPrecedence leaves the map of the
\* first unchanged, and an application changes no key other than
\* trustProxyEffective: the raw keys and every other key keep their values and
\* their places, and no key other than trustProxyEffective is added.
C34_IdempotentAndFramed ==
    /\ [][(pc = "precedenceReturned" /\ pc' = "precedenceReapplied") => resolved' = resolved]_vars
    /\ [][appliesPrecedence =>
            /\ Keys(resolved') = Keys(resolved) \cup {"trustProxyEffective"}
            /\ \A i \in 1..Len(resolved) :
                    resolved[i][1] # "trustProxyEffective" => resolved'[i] = resolved[i]]_vars

\* the function was applied twice to a map with other keys, and the hop count
\* is the effective value
C34_Witness ==
    /\ pc = "precedenceReapplied"
    /\ resolverRuns = 2
    /\ Get(resolved, "port") = Num(3000, 0)
    /\ Get(resolved, "host") = Str("ab")
    /\ Get(resolved, "trustProxyHop") = Num(80, 0)
    /\ Get(resolved, "trustProxyEffective") = Num(80, 0)

\* the second application started from a stale effective value already replaced
C34_WitnessStale ==
    /\ pc = "precedenceReapplied"
    /\ Get(resolved, "trustProxyEnabled") = Bool(FALSE)
    /\ Get(resolved, "trustProxyEffective") = Bool(FALSE)

-----------------------------------------------------------------------------
(* C36: termination with a cooperative operator. *)

endedCancelled == pc = "exited" /\ exitCode = 0 /\ out = <<"cancelled">> /\ errLines = 0
endedCreated == pc = "exited" /\ exitCode = 0 /\ out = <<"created">> /\ errLines = 0
endedFatal == pc = "exited" /\ exitCode = 1 /\ errLines = 1 /\ out = <<>>

outcomes == {o \in {"cancelled", "created", "fatal"} :
                \/ o = "cancelled" /\ endedCancelled
                \/ o = "created" /\ endedCreated
                \/ o = "fatal" /\ endedFatal}

\* the operator kept adding until the model's bound on additions: the pending
\* name question has no answer left within the bound
additionsExhausted ==
    /\ NAdditions >= MaxAdditions
    /\ pc \in {"wizPluginName", "wizRouteName"}

\* C36: with an operator who answers every pending question with an accepted
\* line at some time, chooses Done at some time on the menu shown again and
\* again, and answers No at some time to "Add another plugin?", a run that has
\* asked its first question ends (unless the operator added items up to the
\* bound of the model), and it ends in exactly one of cancelled, project
\* created and fatal error, where it stays.
C36_RunTerminates ==
    /\ (pc = "mode") ~> (pc = "exited" \/ additionsExhausted)
    /\ []((pc = "exited" /\ setupAsked # <<>>) => Cardinality(outcomes) = 1)
    /\ [][pc = "exited" => pc' = "exited"]_vars

\* a run that ended in "project created" with a scaffold that has a route and
\* a decorator
C36_Witness ==
    /\ endedCreated
    /\ Len(pluginScaffolds) = 1
    /\ pluginScaffolds[1].routeNames = <<"users">>
    /\ pluginScaffolds[1].hasDecorator

C36_WitnessCancelled == endedCancelled /\ Len(pluginScaffolds) = 1
C36_WitnessFatal == endedFatal /\ setupAsked # <<>> /\ Len(pluginScaffolds) = 2

-----------------------------------------------------------------------------
(* C37: the options with a declared default after the setup flow. *)

\* a value of the option's declared type
ofDeclaredType(option, value) ==
    CASE option.type = "number"  -> TypeOf(value) = "number" /\ value # NaN
      [] option.type = "boolean" -> TypeOf(value) = "boolean"
      [] option.type = "choice"  -> TypeOf(value) = "string" /\ value[2] \in Range(option.choices)
      [] option.type = "string"  -> TypeOf(value) = "string"
      [] OTHER                   -> TRUE

defaultedOptions == {option \in InputOptions : option.default # Undef}

\* C37: once runSetupFlow has returned, every option declared with a default
\* holds a value of its declared type, not undefined, and no string option
\* holds the empty string.
C37_DefaultedOptionsTyped ==
    setupReturned =>
        /\ \A option \in defaultedOptions :
                /\ Get(resolved, option.key) # Undef
                /\ ofDeclaredType(option, Get(resolved, option.key))
        /\ \A option \in InputOptions :
                option.type = "string" => Get(resolved, option.key) # Str("")

\* the same, but for a log level answered with a line such as 1.5
C37_ExceptUndefinedChoice ==
    setupReturned =>
        /\ \A option \in defaultedOptions :
                \/ /\ Get(resolved, option.key) # Undef
                   /\ ofDeclaredType(option, Get(resolved, option.key))
                \/ option.key = "logLevel" /\ Get(resolved, "logLevel") = Undef
        /\ \A option \in InputOptions :
                option.type = "string" => Get(resolved, option.key) # Str("")

-----------------------------------------------------------------------------
(* C38: scaffolds do not share state. *)

\* the step that begins the next scaffold: "scaffold another?" answered, and the
\* wizard goes back to its menu
beginsNextScaffold == pc = "wizAnother" /\ pc' = "wizMenu"

\* C38: the step that begins the next scaffold leaves no name, no route, no
\* hook, no decorator and no child behind, whatever the scaffold just finished
\* held; and no step changes or removes a scaffold that is in the result list,
\* so what is added to a later scaffold is in none of the earlier ones.
C38_ScaffoldsIndependent ==
    /\ [][beginsNextScaffold => (freshLocals' /\ selected' = Undef)]_vars
    /\ [][(Len(pluginScaffolds') >= Len(pluginScaffolds)
            /\ \A k \in 1..Len(pluginScaffolds) : pluginScaffolds'[k] = pluginScaffolds[k])]_vars
    /\ [](pc \in {"wizMenu", "wizPluginName"} /\ ~Truthy(pluginName) => freshLocals)

\* the second scaffold has a hook of its own while the first, finished with a
\* route, a decorator and a child, is in the list as it was appended
C38_Witness ==
    /\ pc = "wizMenu"
    /\ Len(pluginScaffolds) = 1
    /\ pluginScaffolds[1].routeNames = <<"invoices">>
    /\ pluginScaffolds[1].hookNames = <<>>
    /\ pluginScaffolds[1].hasDecorator
    /\ Truthy(pluginScaffolds[1].childPluginName)
    /\ routeNames = <<>>
    /\ hookNames = <<"audit">>
    /\ ~hasDecorator
    /\ childPluginName = Undef

-----------------------------------------------------------------------------
(* C39: the index of a scaffold and the scaffold's other files. *)

\* the lines of an index that refer to a module, and the module each names, as
\* the path segments below the plugin's directory
referenceLines(index) ==
    {i \in 1..Len(index.content.lines) :
        index.content.lines[i][1] \in {"import", "register"}}

referencedModule(line) ==
    CASE line[2] = "./decorator" -> <<"decorator">>
      [] line[2] = "./hooks/"    -> <<"hooks", line[3]>>
      [] line[2] = "./routes/"   -> <<"routes", line[3]>>
      [] line[2] = "./plugins/"  -> <<"plugins", line[3]>>

\* the module a file is, seen from the directory pluginRoot: X.ts and X/index.ts are X
moduleOfFile(file, pluginRoot) ==
    LET dir == file.relativePath[1]
        below == SubSeq(dir, Len(pluginRoot) + 1, Len(dir))
    IN  IF file.relativePath[2] = "index" THEN below ELSE below \o <<file.relativePath[2]>>

\* in the files of one scaffold: every reference of the index names exactly one
\* of the other files and every other file is named by exactly one reference
indexMatchesFiles(files) ==
    LET index == files[1]
        pluginRoot == index.relativePath[1]
        lines == index.content.lines
        others == 2..Len(files)
    IN  /\ index.content.kind = "index"
        /\ \A i \in referenceLines(index) :
                Cardinality({j \in others :
                    moduleOfFile(files[j], pluginRoot) = referencedModule(lines[i])}) = 1
        /\ \A j \in others :
                /\ SubSeq(files[j].relativePath[1], 1, Len(pluginRoot)) = pluginRoot
                /\ Cardinality({i \in referenceLines(index) :
                        referencedModule(lines[i]) = moduleOfFile(files[j], pluginRoot)}) = 1

\* neither a reference to ./plugins/child nor a file plugins/child.ts
noChildFallback(files) ==
    /\ \A i \in referenceLines(files[1]) : files[1].content.lines[i][2] # "./plugins/"
    /\ \A j \in 1..Len(files) : files[j].content.kind # "child"

\* the files written for the k-th scaffold, in the order they were written
RECURSIVE writtenUnder(_, _)
writtenUnder(pluginRoot, i) ==
    IF i > Len(written) THEN <<>>
    ELSE (IF /\ Len(written[i][1][1]) >= Len(pluginRoot)
             /\ SubSeq(written[i][1][1], 1, Len(pluginRoot)) = pluginRoot
          THEN <<[relativePath |-> written[i][1], content |-> written[i][2]]>> ELSE <<>>)
         \o writtenUnder(pluginRoot, i + 1)

\* C39: in a created project the files written for a scaffold are its index
\* and, one to one, the modules the index refers to (./decorator, ./hooks/<h>,
\* ./routes/<r>, ./plugins/<child>); and a scaffold without a child plugin has
\* neither a reference to ./plugins/child nor such a file.  The same holds of
\* the files buildPluginFiles gives for every scaffold the wizard returns.
C39_IndexMatchesFiles ==
    /\ \A k \in 1..Len(pluginScaffolds) :
            /\ indexMatchesFiles(buildPluginFiles(pluginScaffolds[k]))
            /\ ~Truthy(pluginScaffolds[k].childPluginName) =>
                    noChildFallback(buildPluginFiles(pluginScaffolds[k]))
    /\ (pc = "exited" /\ out = <<"created">>) =>
            \A k \in 1..Len(pluginScaffolds) :
                LET files == writtenUnder(<<"plugins", pluginScaffolds[k].pluginName>>, 1)
                IN  /\ files = buildPluginFiles(pluginScaffolds[k])
                    /\ indexMatchesFiles(files)
                    /\ ~Truthy(pluginScaffolds[k].childPluginName) => noChildFallback(files)

\* a project was created with a scaffold that has a route, a hook, a
\* decorator and a child plugin: four files beside the index
C39_Witness ==
    /\ pc = "exited"
    /\ out = <<"created">>
    /\ \E k \in 1..Len(pluginScaffolds) :
            /\ Len(pluginScaffolds[k].routeNames) = 1
            /\ Len(pluginScaffolds[k].hookNames) = 1
            /\ pluginScaffolds[k].hasDecorator
            /\ Truthy(pluginScaffolds[k].childPluginName)
            /\ Len(writtenUnder(<<"plugins", pluginScaffolds[k].pluginName>>, 1)) = 5

\* a project was created with a scaffold that has a route and no child plugin
C39_WitnessNoChild ==
    /\ pc = "exited"
    /\ out = <<"created">>
    /\ Len(pluginScaffolds) = 1
    /\ pluginScaffolds[1].routeNames # <<>>
    /\ pluginScaffolds[1].childPluginName = Undef

====
